---------------------------- MODULE Spec2Model ----------------------------
(***************************************************************************)
(* Model of the content-sdk-migration CLI's upload pipeline                *)
(* (src/src/analyser.ts): withRetry, the per-file upload tasks run through *)
(* a PQueue, and the three-phase job of readAndAnalyzeFiles.               *)
(*                                                                         *)
(* Specifications:                                                         *)
(*   Spec         one run of readAndAnalyzeFiles (initiate, uploads,       *)
(*                finalise) with every interleaving of responses;          *)
(*   SpecLive     Spec with the fairness of the event loop;                *)
(*   SpecRetry    one call of withRetry with its options and the errors of *)
(*                the wrapped operation drawn from bounded sets;           *)
(*   SpecTimed    the uploads with the clock of the PQueue and of sleep;   *)
(*   SpecDiscover analyzeCodebase on bounded project trees;                *)
(*   SpecClassify classifyFileType on bounded paths;                       *)
(*   SpecUrl      buildServiceUrl on bounded hosts and routes;             *)
(*   SpecCli      the report command (src/src/index.ts).                   *)
(***************************************************************************)
EXTENDS Integers, Sequences, FiniteSets, TLC

VARIABLES
    \* ---- one run of readAndAnalyzeFiles (Spec) ----
    phase,           \* where the body of readAndAnalyzeFiles stands
    totalFiles,      \* filePaths.length
    throttle,        \* the PQueue options taken from config.THROTTLE / DEFAULT_THROTTLE
    task,            \* task[i]: the withRetry call of file i and its place in the queue
    hist,            \* hist[i]: what the service answered to the requests of file i
    queue,           \* PQueue's FIFO of jobs not yet started (file indices)
    intervalCount,   \* the task starts inside the rolling window that ends now
    completedCount,  \* let completedCount
    timedOutFiles,   \* const timedOutFiles: string[]
    failedFiles,     \* const failedFiles: Array<{filePath, error}>
    successfulFiles, \* the count printed before finalise, None until printed
    jobId,           \* the jobId of the initiate response, None before it
    reports,         \* the report locations of the finalise response, None before it
    initiateCount,   \* GET jobs-initiate requests sent
    finaliseCount,   \* POST jobs/<id>/finalise requests sent
    finaliseRoute,   \* the route of the finalise request, None while none is sent
    finaliseAnswer,  \* what the service answered to finalise: "none", "ok", "error"
    whatIf,          \* the whatIf argument of analyzeCodebase
    thrown,          \* the error analyzeCodebase rejects with, NoError while it has not
    \* ---- one call of withRetry (SpecRetry) ----
    rOpts,           \* the options argument
    rCall,           \* the call's state
    delayMs,         \* const delayMs while the call sleeps, 0 otherwise
    now,             \* Date.now()
    \* ---- the upload phase on a clock (SpecTimed) ----
    ticks,           \* the time, in ticks of TickMs
    starts,          \* the ticks of the task starts inside the rolling window, oldest first
    due,             \* due[i]: the ticks from and by which the sleep of task i is over
    recentStarts,    \* task starts in each tick of the window that ends now
    recentRequests,  \* analyse-file requests in each tick of the window that ends now
    \* ---- analyzeCodebase up to the call of readAndAnalyzeFiles (SpecDiscover) ----
    project,         \* the arguments and the file system they point into
    disc             \* where analyzeCodebase stands and what it has computed

runVars == <<phase, totalFiles, throttle, task, hist, queue, intervalCount,
             completedCount, timedOutFiles, failedFiles,
             successfulFiles, jobId, reports, initiateCount, finaliseCount, finaliseRoute,
             finaliseAnswer, whatIf, thrown>>
retryVars == <<rOpts, rCall, delayMs, now>>
timeVars == <<ticks, starts, due, recentStarts, recentRequests>>
discVars == <<project, disc>>
vars == <<runVars, retryVars, timeVars, discVars>>

-----------------------------------------------------------------------------
(* Bounds of the model *)

MaxFiles == 2
MaxRetries == 6

(* Program constants *)

UploadRetries == 4
UploadMinDelayMs == 1000
UploadMaxDelayMs == 10000
DefaultRetries == 3
DefaultMinDelayMs == 1000
DefaultMaxDelayMs == 8000
JitterCeiling == 250
DefaultMaxConcurrent == 2
DefaultIntervalCap == 5
DefaultIntervalMs == 20000

-----------------------------------------------------------------------------
(* Optional values: undefined is the empty set, a value v is {v} *)

None == {}
Some(v) == {v}
OrElse(opt, d) == IF opt = None THEN d ELSE CHOOSE v \in opt : TRUE

Min(a, b) == IF a <= b THEN a ELSE b

RECURSIVE Pow2(_)
Pow2(n) == IF n <= 0 THEN 1 ELSE 2 * Pow2(n - 1)

-----------------------------------------------------------------------------
(* Text.                                                                   *)
(*                                                                         *)
(* A text whose characters the program tells apart by kind (white space,   *)
(* digits, the case of letters) is the sequence of its UTF-16 code units,  *)
(* the elements of a JavaScript string: the retry-after header and the     *)
(* paths given to classifyFileType.  Units("abc") writes down the code     *)
(* units of an ASCII text.  A text that is only carried, compared, cut or  *)
(* joined (messages, routes, the paths of a project tree) is a TLA+        *)
(* string.  Len, Head, Tail, SubSeq and \o are those of Sequences on both, *)
(* and the tests of String.prototype compare element by element.           *)

\* text.endsWith(suffix)
EndsWith(path, suffix) ==
    /\ Len(suffix) <= Len(path)
    /\ SubSeq(path, Len(path) - Len(suffix) + 1, Len(path)) = suffix

\* text.startsWith(prefix)
StartsWith(text, prefix) ==
    /\ Len(prefix) <= Len(text)
    /\ SubSeq(text, 1, Len(prefix)) = prefix

\* text.includes(infix)
HasInfix(path, infix) ==
    \E k \in 0..(Len(path) - Len(infix)) : SubSeq(path, k + 1, k + Len(infix)) = infix

\* the place of character c in a string, counted from 0; Len(text) when absent
RECURSIVE IndexIn(_, _)
IndexIn(c, text) ==
    IF text = "" THEN 0
    ELSE IF Head(text) = c THEN 0
    ELSE 1 + IndexIn(c, Tail(text))

\* the ASCII characters from U+0020 to U+005F and from U+0061 to U+007E
AsciiLow == " !\"#$%&'()*+,-./0123456789:;<=>?@ABCDEFGHIJKLMNOPQRSTUVWXYZ[\\]^_"
AsciiHigh == "abcdefghijklmnopqrstuvwxyz{|}~"

\* the code unit of an ASCII character
CodeUnitOf ==
    [c \in {SubSeq(AsciiLow, k, k) : k \in 1..Len(AsciiLow)}
           \cup {SubSeq(AsciiHigh, k, k) : k \in 1..Len(AsciiHigh)}
           \cup {"\t", "\n", "\f", "\r"} |->
        IF c = "\t" THEN 9
        ELSE IF c = "\n" THEN 10
        ELSE IF c = "\f" THEN 12
        ELSE IF c = "\r" THEN 13
        ELSE IF IndexIn(c, AsciiLow) < Len(AsciiLow) THEN 32 + IndexIn(c, AsciiLow)
        ELSE 97 + IndexIn(c, AsciiHigh)]

\* the code units of an ASCII text
Units(text) == [k \in 1..Len(text) |-> CodeUnitOf[SubSeq(text, k, k)]]

-----------------------------------------------------------------------------
(* Errors an awaited request can reject with.                              *)
(*   axios       axios.isAxiosError(error)                                 *)
(*   code        error.code                                                *)
(*   message     error.message                                             *)
(*   hasResponse error.response is set; status, statusText, data and       *)
(*               retryAfter (the retry-after header) are its fields        *)
(*   hasRequest  error.request is set                                      *)

\* A retry-after header: whether the response carries one, its text in code
\* units, and what Date.parse reads in that text (the instant in ms, None for
\* NaN).  The model reads no calendar: the instant of a date is given with
\* its text.
NoHeader == [present |-> FALSE, text |-> <<>>, parsed |-> None]
TextHeader(text) == [present |-> TRUE, text |-> text, parsed |-> None]
DateHeader(text, t) == [present |-> TRUE, text |-> text, parsed |-> Some(t)]
EmptyHeader == TextHeader(<<>>)

HttpError(s, text, ra, body) ==
    [axios |-> TRUE, code |-> IF s >= 500 THEN "ERR_BAD_RESPONSE" ELSE "ERR_BAD_REQUEST",
     message |-> "Request failed with status code",
     hasResponse |-> TRUE, hasRequest |-> TRUE,
     status |-> s, statusText |-> text, data |-> body, retryAfter |-> ra]

TimeoutError ==
    [axios |-> TRUE, code |-> "ECONNABORTED",
     message |-> "timeout of 40000ms exceeded",
     hasResponse |-> FALSE, hasRequest |-> TRUE,
     status |-> 0, statusText |-> "", data |-> "", retryAfter |-> NoHeader]

\* axios with transitional.clarifyTimeoutError: another code, same message
ClarifiedTimeoutError == [TimeoutError EXCEPT !.code = "ETIMEDOUT"]

\* a timeout told in other words, under another code
WordedTimeoutError ==
    [TimeoutError EXCEPT !.code = "ERR_NETWORK", !.message = "Request timeouts"]

NetworkError ==
    [axios |-> TRUE, code |-> "ERR_NETWORK", message |-> "Network Error",
     hasResponse |-> FALSE, hasRequest |-> TRUE,
     status |-> 0, statusText |-> "", data |-> "", retryAfter |-> NoHeader]

\* an axios error raised before any request was made
SetupError ==
    [axios |-> TRUE, code |-> "ERR_INVALID_URL", message |-> "Invalid URL",
     hasResponse |-> FALSE, hasRequest |-> FALSE,
     status |-> 0, statusText |-> "", data |-> "", retryAfter |-> NoHeader]

\* an Error that axios did not create, although its message speaks of a timeout
PlainError ==
    [axios |-> FALSE, code |-> "", message |-> "socket timeout",
     hasResponse |-> FALSE, hasRequest |-> FALSE,
     status |-> 0, statusText |-> "", data |-> "", retryAfter |-> NoHeader]

\* the value withRetry throws after its loop
UnreachableError ==
    [axios |-> FALSE, code |-> "", message |-> "unreachable",
     hasResponse |-> FALSE, hasRequest |-> FALSE,
     status |-> 0, statusText |-> "", data |-> "", retryAfter |-> NoHeader]

NoError ==
    [axios |-> FALSE, code |-> "", message |-> "",
     hasResponse |-> FALSE, hasRequest |-> FALSE,
     status |-> 0, statusText |-> "", data |-> "", retryAfter |-> NoHeader]

\* message.includes(part)
Includes(message, part) == HasInfix(message, part)

-----------------------------------------------------------------------------
(* isTimeoutError *)

IsTimeoutError(error) ==
    error.axios /\ (error.code = "ECONNABORTED" \/ Includes(error.message, "timeout"))

-----------------------------------------------------------------------------
(* Number(text), as far as getRetryAfterMs needs it.                       *)
(*                                                                         *)
(* The text is trimmed of white space; what is left is nothing (0), a      *)
(* literal 0x.., 0o.., 0b.., or an optional sign before Infinity or before *)
(* decimal digits with an optional fraction and exponent; anything else is *)
(* NaN.  The value is kept as mant * 10^exp with integers mant and exp.    *)
(* A value whose digits are more than MaxDigits, or Infinity, is kept as   *)
(* the text it was read from (kind "double"): the model names that number  *)
(* and does not compute with it.                                           *)

MaxDigits == 9

\* StrWhiteSpaceChar: WhiteSpace (TAB, VT, FF, ZWNBSP and the space
\* separators of Unicode) and LineTerminator (LF, CR, LS, PS)
WhiteSpace ==
    {9, 10, 11, 12, 13, 32, 160, 5760, 8232, 8233, 8239, 8287, 12288, 65279}
    \cup (8192..8202)

RECURSIVE TrimStart(_)
TrimStart(text) ==
    IF text # <<>> /\ Head(text) \in WhiteSpace THEN TrimStart(Tail(text)) ELSE text

RECURSIVE TrimEnd(_)
TrimEnd(text) ==
    IF text # <<>> /\ text[Len(text)] \in WhiteSpace
    THEN TrimEnd(SubSeq(text, 1, Len(text) - 1))
    ELSE text

Trim(text) == TrimEnd(TrimStart(text))

\* the value of a digit in base radix, radix when c is no digit of that base
DigitOf(c, radix) ==
    LET value == IF c \in 48..57 THEN c - 48
                 ELSE IF c \in 97..102 THEN c - 87
                 ELSE IF c \in 65..70 THEN c - 55
                 ELSE radix
    IN  Min(value, radix)

\* how many digits of base radix text begins with
RECURSIVE DigitRun(_, _)
DigitRun(text, radix) ==
    IF text # <<>> /\ DigitOf(Head(text), radix) < radix
    THEN 1 + DigitRun(Tail(text), radix)
    ELSE 0

\* the number a text of digits of base radix writes
RECURSIVE DigitsValue(_, _)
DigitsValue(digits, radix) ==
    IF digits = <<>> THEN 0
    ELSE radix * DigitsValue(SubSeq(digits, 1, Len(digits) - 1), radix)
         + DigitOf(digits[Len(digits)], radix)

RECURSIVE StripLeadingZeros(_)
StripLeadingZeros(digits) ==
    IF digits # <<>> /\ Head(digits) = 48 THEN StripLeadingZeros(Tail(digits)) ELSE digits

RECURSIVE StripTrailingZeros(_)
StripTrailingZeros(digits) ==
    IF digits # <<>> /\ digits[Len(digits)] = 48
    THEN StripTrailingZeros(SubSeq(digits, 1, Len(digits) - 1))
    ELSE digits

RECURSIVE Pow(_, _)
Pow(b, n) == IF n <= 0 THEN 1 ELSE b * Pow(b, n - 1)

NaN == [kind |-> "NaN"]
Decimal(m, x) == [kind |-> "decimal", mant |-> m, exp |-> x]
Double(text) == [kind |-> "double", text |-> text]

\* how many digits of a base the model computes with: the number they write
\* has at most MaxDigits decimal digits
RadixDigits(radix) == IF radix = 16 THEN 7 ELSE IF radix = 8 THEN 9 ELSE 29

\* 0x.., 0o.., 0b..: digits of the base and nothing else
RadixLiteral(text, radix) ==
    LET digits == SubSeq(text, 3, Len(text))
    IN  IF digits = <<>> \/ DigitRun(digits, radix) # Len(digits) THEN NaN
        ELSE IF Len(StripLeadingZeros(digits)) > RadixDigits(radix) THEN Double(text)
        ELSE Decimal(DigitsValue(StripLeadingZeros(digits), radix), 0)

\* an optional sign, then Infinity or digits, fraction and exponent
DecimalLiteral(text) ==
    LET signed == Head(text) \in {43, 45}
        negative == Head(text) = 45
        unsigned == IF signed THEN Tail(text) ELSE text
        n1 == DigitRun(unsigned, 10)
        int == SubSeq(unsigned, 1, n1)
        afterInt == SubSeq(unsigned, n1 + 1, Len(unsigned))
        hasDot == afterInt # <<>> /\ Head(afterInt) = 46
        afterDot == IF hasDot THEN Tail(afterInt) ELSE afterInt
        n2 == IF hasDot THEN DigitRun(afterDot, 10) ELSE 0
        frac == StripTrailingZeros(SubSeq(afterDot, 1, n2))
        afterFrac == SubSeq(afterDot, n2 + 1, Len(afterDot))
        hasExp == afterFrac # <<>> /\ Head(afterFrac) \in {101, 69}
        afterE == IF hasExp THEN Tail(afterFrac) ELSE afterFrac
        expSigned == afterE # <<>> /\ Head(afterE) \in {43, 45}
        expNegative == afterE # <<>> /\ Head(afterE) = 45
        expDigits == IF expSigned THEN Tail(afterE) ELSE afterE
        digits == StripLeadingZeros(int \o frac)
        e == DigitsValue(StripLeadingZeros(expDigits), 10)
    IN  IF unsigned = Units("Infinity") THEN Double(text)
        ELSE IF n1 + n2 = 0 THEN NaN
        ELSE IF ~hasExp /\ afterFrac # <<>> THEN NaN
        ELSE IF hasExp /\ (expDigits = <<>> \/ DigitRun(expDigits, 10) # Len(expDigits))
        THEN NaN
        ELSE IF digits = <<>> THEN Decimal(0, 0)
        ELSE IF Len(digits) > MaxDigits \/ Len(StripLeadingZeros(expDigits)) > 1
        THEN Double(text)
        ELSE Decimal((IF negative THEN -1 ELSE 1) * DigitsValue(digits, 10),
                     (IF ~hasExp THEN 0 ELSE IF expNegative THEN -e ELSE e) - Len(frac))

\* Number(text)
NumberOf(text) ==
    LET trimmed == Trim(text)
        prefix == SubSeq(trimmed, 1, Min(2, Len(trimmed)))
    IN  IF trimmed = <<>> THEN Decimal(0, 0)
        ELSE IF prefix \in {Units("0x"), Units("0X")} THEN RadixLiteral(trimmed, 16)
        ELSE IF prefix \in {Units("0o"), Units("0O")} THEN RadixLiteral(trimmed, 8)
        ELSE IF prefix \in {Units("0b"), Units("0B")} THEN RadixLiteral(trimmed, 2)
        ELSE DecimalLiteral(trimmed)

\* the digits of a positive integer, counted
RECURSIVE DigitCount(_)
DigitCount(n) == IF n < 10 THEN 1 ELSE 1 + DigitCount(n \div 10)

Abs(n) == IF n < 0 THEN -n ELSE n

\* asNumber * 1000 for asNumber = Number(text).  The product is an integer
\* the model computes when asNumber is an integer, or a fraction that binary
\* floating point holds exactly (5^k divides mant for exp = -k) with an
\* integer product, within MaxDigits digits; any other product is named by
\* the text: it is the double the code computes, which the model does not.
TimesThousand(text, number) ==
    IF number.kind = "double" THEN Double(Trim(text))
    ELSE IF number.mant = 0 THEN 0
    ELSE LET m == number.mant
             k == -number.exp
         IN  IF DigitCount(Abs(m)) + number.exp + 3 > MaxDigits THEN Double(Trim(text))
             ELSE IF k <= 0 THEN m * Pow(10, number.exp + 3)
             ELSE IF k > MaxDigits \/ m % Pow(5, k) # 0 THEN Double(Trim(text))
             ELSE IF k <= 3 THEN m * Pow(10, 3 - k)
             ELSE IF m % Pow(10, k - 3) = 0 THEN m \div Pow(10, k - 3)
             ELSE Double(Trim(text))

-----------------------------------------------------------------------------
(* getRetryAfterMs *)

\* error.response?.headers?.['retry-after']
RetryAfterHeader(error) == IF error.hasResponse THEN error.retryAfter ELSE NoHeader

\* variant: a header of 0 seconds taken for no header
GetRetryAfterMsFalsyZero(error, clock) ==
    IF ~error.axios THEN None
    ELSE LET header == RetryAfterHeader(error)
             asNumber == NumberOf(header.text)
         IN  IF ~header.present \/ header.text = <<>> THEN None
             ELSE IF asNumber # NaN
                  THEN IF asNumber = Decimal(0, 0) THEN None
                       ELSE Some(TimesThousand(header.text, asNumber))
             ELSE IF header.parsed # None
                  THEN LET delta == OrElse(header.parsed, 0) - clock
                       IN  Some(IF delta > 0 THEN delta ELSE 0)
             ELSE None

GetRetryAfterMs(error, clock) ==
    IF ~error.axios THEN None
    ELSE LET header == RetryAfterHeader(error)
             asNumber == NumberOf(header.text)
         IN  IF ~header.present \/ header.text = <<>> THEN None
             ELSE IF asNumber # NaN THEN Some(TimesThousand(header.text, asNumber))
             ELSE IF header.parsed # None
                  THEN LET delta == OrElse(header.parsed, 0) - clock
                       IN  Some(IF delta > 0 THEN delta ELSE 0)
             ELSE None

-----------------------------------------------------------------------------
(* withRetry.                                                              *)
(* A call is [st, attempt, calls, sleeps, err]:                            *)
(*   st       "idle" before the call, "inflight" while operation() is      *)
(*            awaited, "sleeping" in sleep(delayMs), "returned", "thrown"  *)
(*   attempt  the loop variable                                            *)
(*   calls    how many times operation() was invoked                       *)
(*   sleeps   how many times sleep() was awaited                           *)
(*   err      the error caught last (NoError before any), or thrown        *)
(* The argument of sleep is DelayMs; a specification that keeps the time   *)
(* holds it beside the call.                                               *)

IdleCall == [st |-> "idle", attempt |-> 0, calls |-> 0, sleeps |-> 0, err |-> NoError]

\* options?.retries ?? 3, options?.minDelayMs ?? 1000, options?.maxDelayMs ?? 8000
Retries(options) == OrElse(options.retries, DefaultRetries)
MinDelayMs(options) == OrElse(options.minDelayMs, DefaultMinDelayMs)
MaxDelayMs(options) == OrElse(options.maxDelayMs, DefaultMaxDelayMs)

\* axios.isAxiosError(error) ? error.response?.status : undefined
StatusOf(error) == IF error.axios /\ error.hasResponse THEN Some(error.status) ELSE None

\* variant: every status from 400 up retried
RetryableStatusAll4xx(status) ==
    status # None /\ OrElse(status, 0) >= 400

RetryableStatus(status) ==
    \/ status = Some(408)
    \/ status = Some(429)
    \/ (status # None /\ OrElse(status, 0) >= 500)

Retryable(error) == IsTimeoutError(error) \/ RetryableStatus(StatusOf(error))

\* variant: the error kind not looked at
RethrowsOnlyLast(attempt, retries, error) == attempt = retries

\* variant: the attempts counted from zero, one more round than `retries`
RethrowsAfterLast(attempt, retries, error) == attempt = retries + 1 \/ ~Retryable(error)

\* variant: the last attempt not told apart, a retryable error always waited on
RethrowsFatalOnly(attempt, retries, error) == ~Retryable(error)

\* if (attempt === retries || !retryable) throw error
Rethrows(attempt, retries, error) == attempt = retries \/ ~Retryable(error)

\* Math.min(maxDelayMs, minDelayMs * 2 ** (attempt - 1))
ExpDelay(attempt, minDelayMs, maxDelayMs) ==
    Min(maxDelayMs, minDelayMs * Pow2(attempt - 1))

\* Math.floor(Math.random() * 250): any integer of 0..249
Jitters == 0..(JitterCeiling - 1)

\* const delayMs = headerDelay ?? expDelay + jitter
DelayMs(error, attempt, options, jitter, clock) ==
    OrElse(GetRetryAfterMs(error, clock),
           ExpDelay(attempt, MinDelayMs(options), MaxDelayMs(options)) + jitter)

\* the values of delayMs, one for each jitter that can be drawn
DelaysMs(error, attempt, options, clock) ==
    LET headerDelay == GetRetryAfterMs(error, clock)
        expDelay == ExpDelay(attempt, MinDelayMs(options), MaxDelayMs(options))
    IN  {OrElse(headerDelay, expDelay + jitter) : jitter \in Jitters}

\* variant: the loop variable not advanced
NextAttemptStuck(attempt) == attempt

\* attempt += 1
NextAttempt(attempt) == attempt + 1

\* the loop head: operation() is invoked when attempt <= retries, and the
\* statement after the loop throws otherwise
EnterLoop(call, options, attempt) ==
    IF attempt <= Retries(options)
    THEN [call EXCEPT !.st = "inflight", !.attempt = attempt, !.calls = @ + 1]
    ELSE [call EXCEPT !.st = "thrown", !.attempt = attempt, !.err = UnreachableError]

\* withRetry is called: let attempt = 1
WithRetryCalled(options) == EnterLoop(IdleCall, options, 1)

\* return await operation()
OnResolve(call) == [call EXCEPT !.st = "returned"]

\* variant: the error of the first failed attempt is the one kept and thrown
OnRejectKeepsFirst(call, options, error) ==
    LET kept == IF call.err = NoError THEN error ELSE call.err
    IN  IF Rethrows(call.attempt, Retries(options), error)
        THEN [call EXCEPT !.st = "thrown", !.err = kept]
        ELSE [call EXCEPT !.st = "sleeping", !.err = kept, !.sleeps = @ + 1]

\* the catch clause of one attempt: the error is thrown again, or
\* sleep(delayMs) is awaited
OnReject(call, options, error) ==
    IF Rethrows(call.attempt, Retries(options), error)
    THEN [call EXCEPT !.st = "thrown", !.err = error]
    ELSE [call EXCEPT !.st = "sleeping", !.err = error, !.sleeps = @ + 1]

\* variant: the promise of sleep is never resolved, the call stays where it is
OnWakeStaysAsleep(call, options) == call

\* sleep(delayMs) is over: the loop goes round
OnWake(call, options) == EnterLoop(call, options, NextAttempt(call.attempt))

-----------------------------------------------------------------------------
(* SpecRetry: one call of withRetry *)

\* the options of the one call site, analyser.ts 368-373
UploadOptions == [retries |-> Some(UploadRetries),
                  minDelayMs |-> Some(UploadMinDelayMs),
                  maxDelayMs |-> Some(UploadMaxDelayMs)]

\* the options a call is tried with: each one given or left to its default
RetryOptionSets ==
    [retries : {None} \cup {Some(n) : n \in 0..MaxRetries},
     minDelayMs : {None, Some(UploadMinDelayMs)},
     maxDelayMs : {None, Some(UploadMaxDelayMs)}]

NotFoundText == "Not Found"
TooManyText == "Too Many Requests"
UnavailableText == "Service Unavailable"

\* The retry-after headers tried.  Node's HTTP parser strips the spaces and
\* tabs round a field value and hands on every other byte of it as one code
\* unit, so a value may begin with a no-break space, or be one.
HttpDate == DateHeader(Units("Thu, 01 Jan 1970 00:00:03 GMT"), 3000)
PaddedHeader == TextHeader(<<160>> \o Units("5"))
BlankHeader == TextHeader(<<160>>)
RetryAfterHeaders ==
    {NoHeader, EmptyHeader, TextHeader(Units("soon")), TextHeader(Units("0")),
     TextHeader(Units("2")), TextHeader(Units("120")), TextHeader(Units("1.5")),
     TextHeader(Units("1.1")), TextHeader(Units("-1")), TextHeader(Units("1e3")),
     TextHeader(Units("0x10")), PaddedHeader, BlankHeader, HttpDate}

\* the errors the wrapped operation is made to reject with
RetryErrors ==
    {TimeoutError, ClarifiedTimeoutError, WordedTimeoutError, NetworkError, SetupError,
     PlainError}
    \cup {HttpError(s, "Error", NoHeader, "") : s \in {400, 408, 499, 500, 599}}
    \cup {HttpError(404, NotFoundText, h, "") : h \in {NoHeader, TextHeader(Units("2"))}}
    \cup {HttpError(429, TooManyText, h, "") : h \in RetryAfterHeaders}
    \cup {HttpError(503, UnavailableText, h, "") : h \in {NoHeader, TextHeader(Units("2"))}}

\* the readings of Date.now() tried, in ms
Clocks == {0, 1000, 5000}

\* DEFAULT_THROTTLE, without its timeoutMs
DefaultThrottle == [maxConcurrent |-> DefaultMaxConcurrent,
                    intervalCap |-> DefaultIntervalCap,
                    intervalMs |-> DefaultIntervalMs]

\* the variables of the other specifications, at rest
TimeUnused ==
    /\ ticks = 0
    /\ starts = <<>>
    /\ due = <<>>
    /\ recentStarts = <<>>
    /\ recentRequests = <<>>

DiscUnused ==
    /\ project = <<>>
    /\ disc = <<>>

RunUnused ==
    /\ phase = "unused"
    /\ totalFiles = 0
    /\ throttle = DefaultThrottle
    /\ task = <<>>
    /\ hist = <<>>
    /\ queue = <<>>
    /\ intervalCount = 0
    /\ completedCount = 0
    /\ timedOutFiles = <<>>
    /\ failedFiles = <<>>
    /\ successfulFiles = None
    /\ jobId = None
    /\ reports = None
    /\ initiateCount = 0
    /\ finaliseCount = 0
    /\ finaliseRoute = None
    /\ finaliseAnswer = "none"
    /\ whatIf = FALSE
    /\ thrown = NoError

InitRetry ==
    /\ RunUnused
    /\ TimeUnused
    /\ DiscUnused
    /\ rOpts \in RetryOptionSets
    /\ rCall = IdleCall
    /\ delayMs = 0
    /\ now = 0

RetryCall ==
    /\ rCall.st = "idle"
    /\ rCall' = WithRetryCalled(rOpts)
    /\ UNCHANGED <<rOpts, delayMs, now, runVars, timeVars, discVars>>

RetryOperationResolves ==
    /\ rCall.st = "inflight"
    /\ rCall' = OnResolve(rCall)
    /\ UNCHANGED <<rOpts, delayMs, now, runVars, timeVars, discVars>>

RetryOperationRejects ==
    /\ rCall.st = "inflight"
    /\ \E error \in RetryErrors, clock \in Clocks :
          /\ clock >= now
          /\ now' = clock
          /\ rCall' = OnReject(rCall, rOpts, error)
          /\ IF rCall'.st = "sleeping"
             THEN delayMs' \in DelaysMs(error, rCall.attempt, rOpts, clock)
             ELSE delayMs' = 0
    /\ UNCHANGED <<rOpts, runVars, timeVars, discVars>>

RetrySleepOver ==
    /\ rCall.st = "sleeping"
    /\ rCall' = OnWake(rCall, rOpts)
    /\ delayMs' = 0
    /\ UNCHANGED <<rOpts, now, runVars, timeVars, discVars>>

NextRetry ==
    \/ RetryCall
    \/ RetryOperationResolves
    \/ RetryOperationRejects
    \/ RetrySleepOver

SpecRetry == InitRetry /\ [][NextRetry]_vars

-----------------------------------------------------------------------------
(* Spec: one run of readAndAnalyzeFiles.                                   *)
(*                                                                         *)
(* task[i] is [q, call, outcome]:                                          *)
(*   q        "unread" (readFileSync threw: the task was never queued),    *)
(*            "queued" (in the PQueue), "running" (started by the PQueue,  *)
(*            counted in its pending count), "done"                        *)
(*   call     the withRetry call of the task                               *)
(*   outcome  "None" until the task's promise settles, then "Success",     *)
(*            "TimedOut", "Failed", or "Rejected" when the promise of the  *)
(*            map callback rejected                                        *)

\* filePaths, the files that discovery hands on: .ts and .tsx files first,
\* then package.json files, each of a role in FILE_TYPES_TO_ANALYZE
FilePaths == <<"src/components/Foo.tsx", "src/middleware/plugins/bar.ts",
               "src/pages/index.tsx", "src/lib/page-props-factory/plugins/site.ts",
               "apps/web/package.json">>

\* path.relative(projectPath, filePath) of the i-th discovered file
RelativePath(i) == FilePaths[i]

Files == 1..totalFiles

\* config.THROTTLE ?? DEFAULT_THROTTLE: the defaults, or overrides of the two
\* limits
ThrottleChoices ==
    [maxConcurrent : {1, DefaultMaxConcurrent}, intervalCap : {1, DefaultIntervalCap},
     intervalMs : {DefaultIntervalMs}]

\* variant: the configured concurrency not looked at, the default taken
QueueOptionsDefaultConcurrency(t) ==
    [concurrency |-> DefaultMaxConcurrent, intervalCap |-> t.intervalCap,
     interval |-> t.intervalMs]

\* variant: the configured intervalCap not looked at, the default taken
QueueOptionsDefaultIntervalCap(t) ==
    [concurrency |-> t.maxConcurrent, intervalCap |-> DefaultIntervalCap,
     interval |-> t.intervalMs]

\* the options of new PQueue({concurrency, intervalCap, interval, ...})
QueueOptions(t) ==
    [concurrency |-> t.maxConcurrent, intervalCap |-> t.intervalCap,
     interval |-> t.intervalMs]

\* what the initiate request, and the finalise request, can fail with
UnauthorizedText == "Unauthorized"
InitiateErrors ==
    {TimeoutError,
     HttpError(401, UnauthorizedText, NoHeader, ""),
     HttpError(503, UnavailableText, TextHeader(Units("2")), "")}
FinaliseErrors ==
    {TimeoutError,
     HttpError(408, "Request Timeout", NoHeader, ""),
     HttpError(429, TooManyText, TextHeader(Units("2")), ""),
     HttpError(503, UnavailableText, NoHeader, "")}

\* what fs.readFileSync throws for a file it cannot read
ReadError ==
    [axios |-> FALSE, code |-> "ENOENT",
     message |-> "ENOENT: no such file or directory",
     hasResponse |-> FALSE, hasRequest |-> FALSE,
     status |-> 0, statusText |-> "", data |-> "", retryAfter |-> NoHeader]

\* what an analyse-file request can fail with
NotFoundBody == "{\"error\":\"no such job\"}"
\* `${value}` of a string that may be undefined
Interpolated(value) == OrElse(value, "undefined")

\* the job ids the service may answer an initiate request with
JobIds == {"job-1", "job-2"}

\* the job id the initiate response of the run carries
RunJobIds == {"job-1"}

\* variant: the route is made before the job id is there
AnalyseFileRouteUnbound(id) == "jobs/" \o Interpolated(None) \o "/analyse-file"

\* `jobs/${jobId}/analyse-file` and `jobs/${jobId}/finalise`
AnalyseFileRoute(id) == "jobs/" \o Interpolated(id) \o "/analyse-file"
FinaliseRoute(id) == "jobs/" \o Interpolated(id) \o "/finalise"

UploadErrors ==
    {TimeoutError, NetworkError,
     HttpError(429, TooManyText, NoHeader, ""),
     HttpError(404, NotFoundText, NoHeader, NotFoundBody)}

\* The answers to the analyse-file requests of one file, kept to state what
\* the service did: the set of errors answered, how many error answers, the
\* last error answered, whether a 2xx answer came, and the route of the
\* request answered last
NoAnswers == [seen |-> {}, errors |-> 0, last |-> NoError, ok |-> FALSE,
              route |-> None]
AnsweredError(h, error) ==
    [h EXCEPT !.seen = @ \cup {error}, !.errors = @ + 1, !.last = error,
              !.route = Some(AnalyseFileRoute(jobId))]
AnsweredOk(h) == [h EXCEPT !.ok = TRUE, !.route = Some(AnalyseFileRoute(jobId))]

\* the errorMessage of the catch clause, analyser.ts 392-408, as
\* [kind, status, text, data]: kind is the fixed text of the branch taken
ErrorMessage(error) ==
    IF error.axios
    THEN IF error.hasResponse
         THEN [kind |-> "HTTP", status |-> error.status, text |-> error.statusText,
               data |-> error.data]
         ELSE IF error.hasRequest
         THEN [kind |-> "Network error: No response received from server",
               status |-> 0, text |-> "", data |-> ""]
         ELSE [kind |-> "Request error: ", status |-> 0, text |-> error.message,
               data |-> ""]
    ELSE [kind |-> "", status |-> 0, text |-> error.message, data |-> ""]

-----------------------------------------------------------------------------
(* The PQueue of the run: new PQueue({concurrency, intervalCap, interval,  *)
(* carryoverConcurrencyCount: true, autoStart: true}).  The package is not *)
(* among the source files; the queue is the ThrottledDispatcher of the     *)
(* specification (4.4): at most `concurrency` jobs run at a time, at most  *)
(* `intervalCap` jobs start within any rolling window of `interval` ms,    *)
(* jobs start in the order they were added as soon as both limits allow,   *)
(* and a job that has started runs until it is over.  The specification    *)
(* says nothing of carryoverConcurrencyCount, which is left out.  The      *)
(* state of the queue is the record [task, queue, intervalCount].          *)

PendingCount(t) == Cardinality({i \in DOMAIN t : t[i].q = "running"})

NewTask == [q |-> "queued", call |-> IdleCall, outcome |-> "None"]
UnreadTask == [q |-> "unread", call |-> IdleCall, outcome |-> "Rejected"]

\* both gates: the rolling window allows another start and the concurrency
\* allows another job
CanStart(qs) ==
    /\ qs.queue # <<>>
    /\ qs.intervalCount < QueueOptions(throttle).intervalCap
    /\ PendingCount(qs.task) < QueueOptions(throttle).concurrency

\* the job at the head starts: it takes a slot and enters the rolling window;
\* the job calls withRetry, which sends the first request
StartHead(qs) ==
    LET i == Head(qs.queue) IN
    [task |-> [qs.task EXCEPT ![i] = [@ EXCEPT !.q = "running",
                                               !.call = WithRetryCalled(UploadOptions)]],
     queue |-> Tail(qs.queue),
     intervalCount |-> qs.intervalCount + 1]

\* the head of the queue starts if both gates allow
TryToStartAnother(qs) ==
    IF CanStart(qs) THEN StartHead(qs) ELSE qs

\* queue.add(job): the job joins the queue and starts if it may
QueueAdd(qs, i) == TryToStartAnother([qs EXCEPT !.queue = Append(@, i)])

\* the jobs at the head start, one after the other, as long as both gates
\* allow
RECURSIVE ProcessQueue(_)
ProcessQueue(qs) ==
    IF CanStart(qs) THEN ProcessQueue(StartHead(qs)) ELSE TryToStartAnother(qs)

\* the job of task i is over: its slot is free and the head may start
QueueNext(qs, i) ==
    TryToStartAnother([qs EXCEPT !.task[i].q = "done"])

\* filePaths.map(async filePath => ...) up to each callback's first await:
\* file k is read and queued, or its callback's promise rejects
RECURSIVE MapFiles(_, _, _)
MapFiles(qs, k, unreadable) ==
    IF k > totalFiles THEN qs
    ELSE MapFiles(IF k \in unreadable
                  THEN [qs EXCEPT !.task = Append(@, UnreadTask)]
                  ELSE QueueAdd([qs EXCEPT !.task = Append(@, NewTask)], k),
                  k + 1, unreadable)

-----------------------------------------------------------------------------
(* The callback of one file after its await, analyser.ts 377-412 *)

\* the outcome the callback records for a withRetry call that is over
Recorded(call) ==
    IF call.st = "returned" THEN "Success"
    ELSE IF IsTimeoutError(call.err) THEN "TimedOut"
    ELSE "Failed"

\* variant: the count is read before the await (when it is 0) and written
\* after it
CompletedAfterStaleRead(count, call) ==
    IF call.st = "returned" THEN 1 ELSE count

\* completedCount += 1, on success only
CompletedAfter(count, call) ==
    IF call.st = "returned" THEN count + 1 ELSE count

\* variant: any thrown error is taken for a timeout, and the catch goes on
TimedOutAfterAnyThrow(list, i, call) ==
    IF call.st = "thrown" THEN Append(list, RelativePath(i)) ELSE list

\* timedOutFiles.push(relativePath), when the thrown error is a timeout
TimedOutAfter(list, i, call) ==
    IF call.st = "thrown" /\ IsTimeoutError(call.err)
    THEN Append(list, RelativePath(i)) ELSE list

\* variant: the timeout branch falls through to the push below it
FailedAfterNoReturn(list, i, call) ==
    IF call.st = "thrown"
    THEN Append(list, [filePath |-> RelativePath(i), error |-> ErrorMessage(call.err)])
    ELSE list

\* variant: an error caught by an earlier attempt is pushed after a success
FailedAfterStaleError(list, i, call) ==
    IF call.err # NoError /\ ~IsTimeoutError(call.err)
    THEN Append(list, [filePath |-> RelativePath(i), error |-> ErrorMessage(call.err)])
    ELSE list

\* failedFiles.push({filePath, error}), for any other thrown error
FailedAfter(list, i, call) ==
    IF call.st = "thrown" /\ ~IsTimeoutError(call.err)
    THEN Append(list, [filePath |-> RelativePath(i), error |-> ErrorMessage(call.err)])
    ELSE list

\* the promise of a callback is fulfilled once its outcome is recorded
Resolved(t) == t.outcome \in {"Success", "TimedOut", "Failed"}

\* variant: Promise.all of no promise at all is never over
AllResolvedSome(t) == t # <<>> /\ \A i \in DOMAIN t : Resolved(t[i])

\* await Promise.all(analysisPromises) is over: every promise is fulfilled
\* (a rejected one has made it throw already); the queue is then idle
AllResolved(t) == \A i \in DOMAIN t : Resolved(t[i])

QueueIdle(qs) == qs.queue = <<>> /\ PendingCount(qs.task) = 0

\* variant: the run gives up when a file timed out or failed
PhaseAfterUploadsFailFast(timedOut, failed) ==
    IF Len(timedOut) + Len(failed) > 0 THEN "failed" ELSE "finalising"

\* the phase the body enters once the uploads are awaited: the summary is
\* printed and the finalise request is sent whatever the two lists hold
PhaseAfterUploads(timedOut, failed) == "finalising"

\* const successfulFiles = totalFiles - timedOutFiles.length - failedFiles.length
SuccessfulFiles(timedOut, failed) == totalFiles - Len(timedOut) - Len(failed)

\* the body of readAndAnalyzeFiles goes on from `await Promise.all` when qs
\* and the lists are what the current handler leaves
AfterUploads(qs, timedOut, failed) ==
    IF phase = "uploading" /\ AllResolved(qs.task) /\ QueueIdle(qs)
    THEN /\ phase' = PhaseAfterUploads(timedOut, failed)
         /\ successfulFiles' = Some(SuccessfulFiles(timedOut, failed))
         /\ finaliseCount' =
               IF PhaseAfterUploads(timedOut, failed) = "finalising"
               THEN finaliseCount + 1 ELSE finaliseCount
         /\ finaliseRoute' =
               IF PhaseAfterUploads(timedOut, failed) = "finalising"
               THEN Some(FinaliseRoute(jobId)) ELSE finaliseRoute
    ELSE UNCHANGED <<phase, successfulFiles, finaliseCount, finaliseRoute>>

\* withRetry of task i is over with `call`: the PQueue goes on to the next
\* job, the callback records the outcome, and the body may go on to finalise
Settle(i, call) ==
    LET qs == QueueNext([task |-> [task EXCEPT ![i].call = call,
                                               ![i].outcome = Recorded(call)],
                         queue |-> queue, intervalCount |-> intervalCount], i)
        timedOut == TimedOutAfter(timedOutFiles, i, call)
        failed == FailedAfter(failedFiles, i, call)
    IN  /\ task' = qs.task
        /\ queue' = qs.queue
        /\ intervalCount' = qs.intervalCount
        /\ completedCount' = CompletedAfter(completedCount, call)
        /\ timedOutFiles' = timedOut
        /\ failedFiles' = failed
        /\ AfterUploads(qs, timedOut, failed)

\* withRetry of task i goes on (a request in flight, or a sleep)
Continue(i, call) ==
    /\ task' = [task EXCEPT ![i].call = call]
    /\ UNCHANGED <<queue, intervalCount, completedCount, timedOutFiles,
                   failedFiles, phase, successfulFiles, finaliseCount, finaliseRoute>>

Over(call) == call.st \in {"returned", "thrown"}

-----------------------------------------------------------------------------
(* Actions of Spec *)

\* the variables a run of readAndAnalyzeFiles leaves alone
restVars == <<retryVars, timeVars, discVars>>

\* variant: the flag not looked at
WhatIfIgnored(flag) == FALSE

\* config.WHAT_IF, which getConfig sets to the whatIf argument
WhatIf(flag) == flag

\* the catch clause of readAndAnalyzeFiles: the error is logged and thrown
\* again, and analyzeCodebase, which awaits the call without a try, rejects
\* with it
OuterCatch(error) == [phase |-> "failed", thrown |-> error]

\* variant: a retryable error makes the body send the initiate request again
InitiateRejectedRetried(error) ==
    IF Retryable(error) THEN [phase |-> "start", thrown |-> NoError]
    ELSE OuterCatch(error)

\* await axios.get(jobs-initiate) rejects
InitiateRejected(error) == OuterCatch(error)

\* variant: a retryable error makes the body send the finalise request again
FinaliseRejectedRetried(error) ==
    IF Retryable(error) THEN [phase |-> "finalising", thrown |-> NoError]
    ELSE OuterCatch(error)

\* await axios.post(jobs/<id>/finalise) rejects
FinaliseRejected(error) == OuterCatch(error)

\* the state at `if (config.WHAT_IF)`, analyser.ts 285: the files are
\* discovered and filtered
Init ==
    /\ phase = "start"
    /\ totalFiles \in 0..MaxFiles
    /\ throttle \in ThrottleChoices
    /\ task = <<>>
    /\ hist = <<>>
    /\ queue = <<>>
    /\ intervalCount = 0
    /\ completedCount = 0
    /\ timedOutFiles = <<>>
    /\ failedFiles = <<>>
    /\ successfulFiles = None
    /\ jobId = None
    /\ reports = None
    /\ initiateCount = 0
    /\ finaliseCount = 0
    /\ finaliseRoute = None
    /\ finaliseAnswer = "none"
    /\ whatIf \in BOOLEAN
    /\ thrown = NoError
    /\ rOpts = UploadOptions
    /\ rCall = IdleCall
    /\ delayMs = 0
    /\ now = 0
    /\ TimeUnused
    /\ DiscUnused

\* what-if mode: analyzeCodebase returns before readAndAnalyzeFiles
WhatIfReturns ==
    /\ phase = "start"
    /\ WhatIf(whatIf)
    /\ phase' = "returned"
    /\ UNCHANGED <<totalFiles, throttle, task, hist, queue, intervalCount,
                   completedCount, timedOutFiles, failedFiles, successfulFiles, jobId,
                   reports, initiateCount, finaliseCount, finaliseRoute, finaliseAnswer, whatIf,
                   thrown, restVars>>

\* readAndAnalyzeFiles is entered: axios.get(jobs-initiate) is sent
Initiate ==
    /\ phase = "start"
    /\ ~WhatIf(whatIf)
    /\ phase' = "initiating"
    /\ initiateCount' = initiateCount + 1
    /\ UNCHANGED <<totalFiles, throttle, task, hist, queue, intervalCount,
                   completedCount, timedOutFiles, failedFiles, successfulFiles, jobId,
                   reports, finaliseCount, finaliseRoute, finaliseAnswer, whatIf, thrown, restVars>>

\* the initiate request fails: the catch clause logs and rethrows
InitiateFails ==
    /\ phase = "initiating"
    /\ \E error \in InitiateErrors :
         /\ phase' = InitiateRejected(error).phase
         /\ thrown' = InitiateRejected(error).thrown
    /\ UNCHANGED <<totalFiles, throttle, task, hist, queue, intervalCount,
                   completedCount, timedOutFiles, failedFiles, successfulFiles, jobId,
                   reports, initiateCount, finaliseCount, finaliseRoute, finaliseAnswer, whatIf,
                   restVars>>

\* the initiate response arrives: the files are mapped to callbacks (each read
\* and queued, up to its first await), then Promise.all is awaited: it throws
\* at once when a callback's promise is rejected, and is over at once when
\* there is no file
InitiateResponds ==
    /\ phase = "initiating"
    /\ \E unreadable \in SUBSET Files, id \in RunJobIds :
         LET qs == MapFiles([task |-> <<>>, queue |-> <<>>, intervalCount |-> 0], 1, unreadable)
         IN  /\ task' = qs.task
             /\ queue' = qs.queue
             /\ intervalCount' = qs.intervalCount
             /\ hist' = [i \in Files |-> NoAnswers]
             /\ jobId' = Some(id)
             /\ IF unreadable # {}
                THEN /\ phase' = OuterCatch(ReadError).phase
                     /\ thrown' = OuterCatch(ReadError).thrown
                     /\ UNCHANGED <<successfulFiles, finaliseCount, finaliseRoute>>
                ELSE IF AllResolved(qs.task) /\ QueueIdle(qs)
                THEN /\ phase' = PhaseAfterUploads(<<>>, <<>>)
                     /\ successfulFiles' = Some(SuccessfulFiles(<<>>, <<>>))
                     /\ finaliseCount' = finaliseCount + 1
                     /\ finaliseRoute' = Some(FinaliseRoute(Some(id)))
                     /\ UNCHANGED thrown
                ELSE /\ phase' = "uploading"
                     /\ UNCHANGED <<successfulFiles, finaliseCount, finaliseRoute, thrown>>
    /\ UNCHANGED <<totalFiles, throttle, completedCount, timedOutFiles, failedFiles,
                   reports, initiateCount, finaliseAnswer, whatIf, restVars>>

\* the analyse-file request of task i is answered 2xx
UploadSucceeds(i) ==
    /\ task[i].q = "running"
    /\ task[i].call.st = "inflight"
    /\ hist' = [hist EXCEPT ![i] = AnsweredOk(@)]
    /\ Settle(i, OnResolve(task[i].call))
    /\ UNCHANGED <<totalFiles, throttle, jobId, reports, initiateCount,
                   finaliseAnswer, whatIf, thrown, restVars>>

\* the analyse-file request of task i fails: withRetry rethrows or sleeps.
\* Spec keeps no time: a sleep is begun here and is over in UploadSleepOver,
\* however long it is
UploadFails(i) ==
    /\ task[i].q = "running"
    /\ task[i].call.st = "inflight"
    /\ \E error \in UploadErrors :
         LET call == OnReject(task[i].call, UploadOptions, error)
         IN  /\ hist' = [hist EXCEPT ![i] = AnsweredError(@, error)]
             /\ IF Over(call) THEN Settle(i, call) ELSE Continue(i, call)
    /\ UNCHANGED <<totalFiles, throttle, jobId, reports, initiateCount,
                   finaliseAnswer, whatIf, thrown, restVars>>

\* the sleep of task i is over: the next attempt is sent
UploadSleepOver(i) ==
    /\ task[i].q = "running"
    /\ task[i].call.st = "sleeping"
    /\ LET call == OnWake(task[i].call, UploadOptions)
       IN  IF Over(call) THEN Settle(i, call) ELSE Continue(i, call)
    /\ UNCHANGED <<totalFiles, throttle, hist, jobId, reports, initiateCount,
                   finaliseAnswer, whatIf, thrown, restVars>>

\* the oldest start inside the rolling window is `interval` ms old and leaves
\* the window: the jobs at the head start if both gates allow
WindowSlid(qs) == ProcessQueue([qs EXCEPT !.intervalCount = @ - 1])

\* the rolling window moves past its oldest start
WindowSlides ==
    /\ intervalCount > 0
    /\ LET qs == WindowSlid([task |-> task, queue |-> queue,
                             intervalCount |-> intervalCount])
       IN  /\ task' = qs.task
           /\ queue' = qs.queue
           /\ intervalCount' = qs.intervalCount
    /\ UNCHANGED <<phase, totalFiles, throttle, hist, completedCount, timedOutFiles,
                   failedFiles, successfulFiles, jobId, reports, initiateCount,
                   finaliseCount, finaliseRoute, finaliseAnswer, whatIf, thrown, restVars>>

\* the finalise response arrives: the report locations are printed
FinaliseResponds ==
    /\ phase = "finalising"
    /\ phase' = "complete"
    /\ finaliseAnswer' = "ok"
    /\ reports' = Some([reportUrl |-> "report.md", pdfUrl |-> "report.pdf",
                        llmPromptUrl |-> "prompt.md"])
    /\ UNCHANGED <<totalFiles, throttle, task, hist, queue, intervalCount,
                   completedCount, timedOutFiles, failedFiles, successfulFiles, jobId,
                   initiateCount, finaliseCount, finaliseRoute, whatIf, thrown, restVars>>

\* the finalise request fails: the catch clause logs and rethrows
FinaliseFails ==
    /\ phase = "finalising"
    /\ finaliseAnswer' = "error"
    /\ \E error \in FinaliseErrors :
         /\ phase' = FinaliseRejected(error).phase
         /\ thrown' = FinaliseRejected(error).thrown
         /\ finaliseCount' = IF FinaliseRejected(error).phase = "finalising"
                             THEN finaliseCount + 1 ELSE finaliseCount
    /\ UNCHANGED finaliseRoute
    /\ UNCHANGED <<totalFiles, throttle, task, hist, queue, intervalCount,
                   completedCount, timedOutFiles, failedFiles, successfulFiles, jobId,
                   reports, initiateCount, whatIf, restVars>>

Next ==
    \/ WhatIfReturns
    \/ Initiate
    \/ InitiateFails
    \/ InitiateResponds
    \/ \E i \in DOMAIN task : UploadSucceeds(i)
    \/ \E i \in DOMAIN task : UploadFails(i)
    \/ \E i \in DOMAIN task : UploadSleepOver(i)
    \/ WindowSlides
    \/ FinaliseResponds
    \/ FinaliseFails

Spec == Init /\ [][Next]_vars

\* Every request is answered or times out (the analyse-file and finalise
\* requests carry a timeout, analyser.ts 365 and 461; the initiate request
\* carries none and is taken to be answered), every timer set by sleep fires,
\* the rolling window of the PQueue moves on, and every continuation that is
\* ready is run by the event loop: a step that stays possible is taken.
Fairness ==
    /\ WF_vars(WhatIfReturns \/ Initiate)
    /\ WF_vars(InitiateFails \/ InitiateResponds)
    /\ \A i \in 1..MaxFiles :
          /\ WF_vars(i \in DOMAIN task /\ (UploadSucceeds(i) \/ UploadFails(i)))
          /\ WF_vars(i \in DOMAIN task /\ UploadSleepOver(i))
    /\ WF_vars(WindowSlides)
    /\ WF_vars(FinaliseResponds \/ FinaliseFails)

SpecLive == Init /\ [][Next]_vars /\ Fairness

-----------------------------------------------------------------------------
(* SpecTimed: the upload phase of readAndAnalyzeFiles on a clock.          *)
(*                                                                         *)
(* The time is counted in ticks of TickMs: `ticks` is Date.now() divided   *)
(* by TickMs and rounded down, so what happens within one tick happens     *)
(* less than TickMs apart.  The rolling window of the PQueue is            *)
(* IntervalTicks ticks long; the ticks in which the timer of a sleep can   *)
(* fire are SleepTicks.  A response may arrive in any                      *)
(* tick.  recentStarts and recentRequests count, for each of the last      *)
(* interval/TickMs ticks (the last one is the current tick), the tasks     *)
(* started and the analyse-file requests sent in that tick.                *)

TimedFiles == 3
MaxTick == 3

TickMs == DefaultIntervalMs \div 2

\* the interval of the PQueue, in ticks
IntervalTicks == QueueOptions(throttle).interval \div TickMs

TimedThrottleChoices ==
    [maxConcurrent : {1, DefaultMaxConcurrent}, intervalCap : {1, 2},
     intervalMs : {DefaultIntervalMs}]

\* what an analyse-file request fails with in SpecTimed
TimedUploadErrors == {HttpError(429, TooManyText, NoHeader, "")}

RECURSIVE SumOf(_)
SumOf(counts) == IF counts = <<>> THEN 0 ELSE Head(counts) + SumOf(Tail(counts))

\* the requests sent so far by the tasks of t, and the tasks of t started
RequestsSent(t) == SumOf([i \in DOMAIN t |-> t[i].call.calls])
TasksStarted(t) == Cardinality({i \in DOMAIN t : t[i].call.calls > 0})

AddToLast(counts, n) == [counts EXCEPT ![Len(counts)] = @ + n]

\* The ticks in which sleep(delay), called in the current tick, can be over.
\* The timer fires delay ms after it was set (1 ms for a delay below 1), by
\* the reading of Date.now() up to one millisecond sooner, or later by as
\* long as the event loop is busy, which is taken to be less than a tick.
\* The sleep called at the very start of tick k is over in tick
\* k + (delay - 1) / TickMs at the earliest; the one called in the last
\* millisecond of tick k, TickMs - 1 ms late, is over in tick
\* k + (delay + 2 * TickMs - 2) / TickMs, the latest.
SleepTicks(delay) ==
    LET set == IF delay < 1 THEN 1 ELSE delay
    IN  [from |-> ticks + (set - 1) \div TickMs,
         by |-> ticks + (set + 2 * TickMs - 2) \div TickMs]

NotDue == [from |-> 0, by |-> 0]

\* the clock's account of a step that takes task to task' in the current
\* tick; span is the ticks of the sleep the step begins, if it begins one
StampSleep(span) ==
    /\ recentStarts' = AddToLast(recentStarts, TasksStarted(task') - TasksStarted(task))
    /\ recentRequests' = AddToLast(recentRequests, RequestsSent(task') - RequestsSent(task))
    /\ due' = [i \in DOMAIN task' |->
                 IF task'[i].call.st # "sleeping" THEN NotDue
                 ELSE IF i \in DOMAIN task /\ task[i].call.st = "sleeping" THEN due[i]
                 ELSE span]
    /\ UNCHANGED ticks

Stamp == StampSleep(NotDue)

\* the starts of the step enter the rolling window in the current tick
Entered(window) ==
    window \o [k \in 1..(TasksStarted(task') - TasksStarted(task)) |-> ticks]

WindowKept == starts' = Entered(starts)

\* the state when the initiate request is in flight
InitTimed ==
    /\ phase = "initiating"
    /\ totalFiles \in 1..TimedFiles
    /\ throttle \in TimedThrottleChoices
    /\ task = <<>>
    /\ hist = <<>>
    /\ queue = <<>>
    /\ intervalCount = 0
    /\ completedCount = 0
    /\ timedOutFiles = <<>>
    /\ failedFiles = <<>>
    /\ successfulFiles = None
    /\ jobId = None
    /\ reports = None
    /\ initiateCount = 1
    /\ finaliseCount = 0
    /\ finaliseRoute = None
    /\ finaliseAnswer = "none"
    /\ whatIf = FALSE
    /\ thrown = NoError
    /\ rOpts = UploadOptions
    /\ rCall = IdleCall
    /\ delayMs = 0
    /\ now = 0
    /\ ticks = 0
    /\ starts = <<>>
    /\ due = <<>>
    /\ recentStarts = [k \in 1..IntervalTicks |-> 0]
    /\ recentRequests = [k \in 1..IntervalTicks |-> 0]
    /\ DiscUnused

\* the initiate response arrives and every file is read and queued
TimedInitiateResponds ==
    /\ phase = "initiating"
    /\ LET qs == MapFiles([task |-> <<>>, queue |-> <<>>, intervalCount |-> 0], 1, {})
       IN  /\ task' = qs.task
           /\ queue' = qs.queue
           /\ intervalCount' = qs.intervalCount
    /\ hist' = [i \in Files |-> NoAnswers]
    /\ phase' = "uploading"
    /\ jobId' = Some("job-1")
    /\ Stamp
    /\ WindowKept
    /\ UNCHANGED <<totalFiles, throttle, completedCount, timedOutFiles, failedFiles,
                   successfulFiles, reports, initiateCount, finaliseCount, finaliseRoute,
                   finaliseAnswer, whatIf, thrown, retryVars, discVars>>

TimedUploadSucceeds(i) ==
    /\ task[i].q = "running"
    /\ task[i].call.st = "inflight"
    /\ hist' = [hist EXCEPT ![i] = AnsweredOk(@)]
    /\ Settle(i, OnResolve(task[i].call))
    /\ Stamp
    /\ WindowKept
    /\ UNCHANGED <<totalFiles, throttle, jobId, reports, initiateCount,
                   finaliseAnswer, whatIf, thrown, retryVars, discVars>>

TimedUploadFails(i) ==
    /\ task[i].q = "running"
    /\ task[i].call.st = "inflight"
    /\ \E error \in TimedUploadErrors :
         LET call == OnReject(task[i].call, UploadOptions, error)
             delays == DelaysMs(error, task[i].call.attempt, UploadOptions, ticks * TickMs)
         IN  /\ hist' = [hist EXCEPT ![i] = AnsweredError(@, error)]
             /\ IF Over(call) THEN Settle(i, call) ELSE Continue(i, call)
             /\ \E span \in {SleepTicks(delay) : delay \in delays} : StampSleep(span)
    /\ WindowKept
    /\ UNCHANGED <<totalFiles, throttle, jobId, reports, initiateCount,
                   finaliseAnswer, whatIf, thrown, retryVars, discVars>>

\* the timer of sleep(delayMs) fires, not before it is due
TimedUploadSleepOver(i) ==
    /\ task[i].q = "running"
    /\ task[i].call.st = "sleeping"
    /\ ticks >= due[i].from
    /\ LET call == OnWake(task[i].call, UploadOptions)
       IN  IF Over(call) THEN Settle(i, call) ELSE Continue(i, call)
    /\ Stamp
    /\ WindowKept
    /\ UNCHANGED <<totalFiles, throttle, hist, jobId, reports, initiateCount,
                   finaliseAnswer, whatIf, thrown, retryVars, discVars>>

\* the oldest start inside the rolling window leaves it, `interval` after it
\* was made: a start of tick k leaves in tick k + IntervalTicks, at the
\* moment of that tick at which it was made in tick k, and the queue, woken
\* by a timer, is taken to be late by less than a tick
TimedWindowSlides ==
    /\ starts # <<>>
    /\ ticks >= Head(starts) + IntervalTicks
    /\ LET qs == WindowSlid([task |-> task, queue |-> queue,
                             intervalCount |-> intervalCount])
       IN  /\ task' = qs.task
           /\ queue' = qs.queue
           /\ intervalCount' = qs.intervalCount
           /\ starts' = Entered(Tail(starts))
    /\ Stamp
    /\ UNCHANGED <<phase, totalFiles, throttle, hist, completedCount, timedOutFiles,
                   failedFiles, successfulFiles, jobId, reports, initiateCount,
                   finaliseCount, finaliseRoute, finaliseAnswer, whatIf, thrown, retryVars, discVars>>

\* a sleep that must be over before the current tick ends
SleepOverdue(i) ==
    /\ task[i].call.st = "sleeping"
    /\ ticks >= due[i].by

\* a start that must have left the rolling window before the current tick
\* ends
WindowOverdue == starts # <<>> /\ ticks >= Head(starts) + IntervalTicks + 1

\* the clock goes on to the next tick, once the timers that cannot fire later
\* have fired
Tick ==
    /\ phase = "uploading"
    /\ ticks < MaxTick
    /\ ~WindowOverdue
    /\ \A i \in DOMAIN task : ~SleepOverdue(i)
    /\ ticks' = ticks + 1
    /\ recentStarts' = Append(Tail(recentStarts), 0)
    /\ recentRequests' = Append(Tail(recentRequests), 0)
    /\ UNCHANGED <<starts, due, runVars, retryVars, discVars>>

NextTimed ==
    \/ TimedInitiateResponds
    \/ \E i \in DOMAIN task : TimedUploadSucceeds(i)
    \/ \E i \in DOMAIN task : TimedUploadFails(i)
    \/ \E i \in DOMAIN task : TimedUploadSleepOver(i)
    \/ TimedWindowSlides
    \/ Tick

SpecTimed == InitTimed /\ [][NextTimed]_vars

-----------------------------------------------------------------------------
(* SpecDiscover: analyzeCodebase from its entry to its return, or to the   *)
(* call of readAndAnalyzeFiles.                                            *)
(*                                                                         *)
(* A path is a string, "src/pages/Layout.tsx".                             *)
(*                                                                         *)
(* project is [exists, tree, rootIgnore, overrideArg, overrideFile]:       *)
(*   exists        fs.existsSync(projectPath)                              *)
(*   tree          the files under projectPath, as relative paths, in the  *)
(*                 order glob walks them                                   *)
(*   rootIgnore    the rules of projectPath/.gitignore, None without it    *)
(*   overrideArg   gitignorePathOverride: "none" (undefined), or a path    *)
(*                 "relative" to projectPath or "absolute", naming another *)
(*                 file than projectPath/.gitignore                        *)
(*   overrideFile  the rules of the file it names, None when no such file  *)
(* disc is [reads, warned, ig, globs, allFiles, relevantFiles,             *)
(* filteredFiles]: the ignore files read, the warning printed, the rules   *)
(* added to ig, the glob calls made, and the three lists.                  *)

MaxTree == 2

\* The code points of a text.  A high surrogate followed by a low one is one
\* code point of two code units; any other code unit is a code point.
IsHighSurrogate(unit) == unit \in 55296..56319
IsLowSurrogate(unit) == unit \in 56320..57343

\* the code point that begins at place k
CodePointAt(text, k) ==
    IF k < Len(text) /\ IsHighSurrogate(text[k]) /\ IsLowSurrogate(text[k + 1])
    THEN 65536 + ((text[k] - 55296) * 1024) + (text[k + 1] - 56320)
    ELSE text[k]

\* the code point that ends at place k
CodePointBefore(text, k) ==
    IF k > 1 /\ IsLowSurrogate(text[k]) /\ IsHighSurrogate(text[k - 1])
    THEN 65536 + ((text[k - 1] - 55296) * 1024) + (text[k] - 56320)
    ELSE text[k]

Width(cp) == IF cp >= 65536 THEN 2 ELSE 1

Encode(cp) ==
    IF cp < 65536 THEN <<cp>>
    ELSE <<55296 + ((cp - 65536) \div 1024), 56320 + ((cp - 65536) % 1024)>>

\* The case mappings of Unicode (UnicodeData and SpecialCasing, version 17)
\* outside ASCII.  <<first, last, step, delta>>: the code points first,
\* first + step, ..., last are mapped to themselves plus delta.
LowerRanges ==
    <<<<192, 214, 1, 32>>, <<216, 222, 1, 32>>, <<256, 302, 2, 1>>,
      <<306, 310, 2, 1>>, <<313, 327, 2, 1>>, <<330, 374, 2, 1>>,
      <<376, 376, 1, -121>>, <<377, 381, 2, 1>>, <<385, 385, 1, 210>>,
      <<386, 388, 2, 1>>, <<390, 390, 1, 206>>, <<391, 391, 1, 1>>,
      <<393, 394, 1, 205>>, <<395, 395, 1, 1>>, <<398, 398, 1, 79>>,
      <<399, 399, 1, 202>>, <<400, 400, 1, 203>>, <<401, 401, 1, 1>>,
      <<403, 403, 1, 205>>, <<404, 404, 1, 207>>, <<406, 406, 1, 211>>,
      <<407, 407, 1, 209>>, <<408, 408, 1, 1>>, <<412, 412, 1, 211>>,
      <<413, 413, 1, 213>>, <<415, 415, 1, 214>>, <<416, 420, 2, 1>>,
      <<422, 422, 1, 218>>, <<423, 423, 1, 1>>, <<425, 425, 1, 218>>,
      <<428, 428, 1, 1>>, <<430, 430, 1, 218>>, <<431, 431, 1, 1>>,
      <<433, 434, 1, 217>>, <<435, 437, 2, 1>>, <<439, 439, 1, 219>>,
      <<440, 440, 1, 1>>, <<444, 444, 1, 1>>, <<452, 452, 1, 2>>,
      <<453, 453, 1, 1>>, <<455, 455, 1, 2>>, <<456, 456, 1, 1>>,
      <<458, 458, 1, 2>>, <<459, 475, 2, 1>>, <<478, 494, 2, 1>>,
      <<497, 497, 1, 2>>, <<498, 500, 2, 1>>, <<502, 502, 1, -97>>,
      <<503, 503, 1, -56>>, <<504, 542, 2, 1>>, <<544, 544, 1, -130>>,
      <<546, 562, 2, 1>>, <<570, 570, 1, 10795>>, <<571, 571, 1, 1>>,
      <<573, 573, 1, -163>>, <<574, 574, 1, 10792>>, <<577, 577, 1, 1>>,
      <<579, 579, 1, -195>>, <<580, 580, 1, 69>>, <<581, 581, 1, 71>>,
      <<582, 590, 2, 1>>, <<880, 882, 2, 1>>, <<886, 886, 1, 1>>,
      <<895, 895, 1, 116>>, <<902, 902, 1, 38>>, <<904, 906, 1, 37>>,
      <<908, 908, 1, 64>>, <<910, 911, 1, 63>>, <<913, 929, 1, 32>>,
      <<931, 939, 1, 32>>, <<975, 975, 1, 8>>, <<984, 1006, 2, 1>>,
      <<1012, 1012, 1, -60>>, <<1015, 1015, 1, 1>>, <<1017, 1017, 1, -7>>,
      <<1018, 1018, 1, 1>>, <<1021, 1023, 1, -130>>, <<1024, 1039, 1, 80>>,
      <<1040, 1071, 1, 32>>, <<1120, 1152, 2, 1>>, <<1162, 1214, 2, 1>>,
      <<1216, 1216, 1, 15>>, <<1217, 1229, 2, 1>>, <<1232, 1326, 2, 1>>,
      <<1329, 1366, 1, 48>>, <<4256, 4293, 1, 7264>>,
      <<4295, 4295, 1, 7264>>, <<4301, 4301, 1, 7264>>,
      <<5024, 5103, 1, 38864>>, <<5104, 5109, 1, 8>>, <<7305, 7305, 1, 1>>,
      <<7312, 7354, 1, -3008>>, <<7357, 7359, 1, -3008>>,
      <<7680, 7828, 2, 1>>, <<7838, 7838, 1, -7615>>, <<7840, 7934, 2, 1>>,
      <<7944, 7951, 1, -8>>, <<7960, 7965, 1, -8>>, <<7976, 7983, 1, -8>>,
      <<7992, 7999, 1, -8>>, <<8008, 8013, 1, -8>>, <<8025, 8031, 2, -8>>,
      <<8040, 8047, 1, -8>>, <<8072, 8079, 1, -8>>, <<8088, 8095, 1, -8>>,
      <<8104, 8111, 1, -8>>, <<8120, 8121, 1, -8>>, <<8122, 8123, 1, -74>>,
      <<8124, 8124, 1, -9>>, <<8136, 8139, 1, -86>>, <<8140, 8140, 1, -9>>,
      <<8152, 8153, 1, -8>>, <<8154, 8155, 1, -100>>, <<8168, 8169, 1, -8>>,
      <<8170, 8171, 1, -112>>, <<8172, 8172, 1, -7>>,
      <<8184, 8185, 1, -128>>, <<8186, 8187, 1, -126>>,
      <<8188, 8188, 1, -9>>, <<8486, 8486, 1, -7517>>,
      <<8490, 8490, 1, -8383>>, <<8491, 8491, 1, -8262>>,
      <<8498, 8498, 1, 28>>, <<8544, 8559, 1, 16>>, <<8579, 8579, 1, 1>>,
      <<9398, 9423, 1, 26>>, <<11264, 11311, 1, 48>>,
      <<11360, 11360, 1, 1>>, <<11362, 11362, 1, -10743>>,
      <<11363, 11363, 1, -3814>>, <<11364, 11364, 1, -10727>>,
      <<11367, 11371, 2, 1>>, <<11373, 11373, 1, -10780>>,
      <<11374, 11374, 1, -10749>>, <<11375, 11375, 1, -10783>>,
      <<11376, 11376, 1, -10782>>, <<11378, 11378, 1, 1>>,
      <<11381, 11381, 1, 1>>, <<11390, 11391, 1, -10815>>,
      <<11392, 11490, 2, 1>>, <<11499, 11501, 2, 1>>,
      <<11506, 11506, 1, 1>>, <<42560, 42604, 2, 1>>,
      <<42624, 42650, 2, 1>>, <<42786, 42798, 2, 1>>,
      <<42802, 42862, 2, 1>>, <<42873, 42875, 2, 1>>,
      <<42877, 42877, 1, -35332>>, <<42878, 42886, 2, 1>>,
      <<42891, 42891, 1, 1>>, <<42893, 42893, 1, -42280>>,
      <<42896, 42898, 2, 1>>, <<42902, 42920, 2, 1>>,
      <<42922, 42922, 1, -42308>>, <<42923, 42923, 1, -42319>>,
      <<42924, 42924, 1, -42315>>, <<42925, 42925, 1, -42305>>,
      <<42926, 42926, 1, -42308>>, <<42928, 42928, 1, -42258>>,
      <<42929, 42929, 1, -42282>>, <<42930, 42930, 1, -42261>>,
      <<42931, 42931, 1, 928>>, <<42932, 42946, 2, 1>>,
      <<42948, 42948, 1, -48>>, <<42949, 42949, 1, -42307>>,
      <<42950, 42950, 1, -35384>>, <<42951, 42953, 2, 1>>,
      <<42955, 42955, 1, -42343>>, <<42956, 42970, 2, 1>>,
      <<42972, 42972, 1, -42561>>, <<42997, 42997, 1, 1>>,
      <<65313, 65338, 1, 32>>, <<66560, 66599, 1, 40>>,
      <<66736, 66771, 1, 40>>, <<66928, 66938, 1, 39>>,
      <<66940, 66954, 1, 39>>, <<66956, 66962, 1, 39>>,
      <<66964, 66965, 1, 39>>, <<68736, 68786, 1, 64>>,
      <<68944, 68965, 1, 32>>, <<71840, 71871, 1, 32>>,
      <<93760, 93791, 1, 32>>, <<93856, 93880, 1, 27>>,
      <<125184, 125217, 1, 34>>>>

UpperRanges ==
    <<<<181, 181, 1, 743>>, <<224, 246, 1, -32>>, <<248, 254, 1, -32>>,
      <<255, 255, 1, 121>>, <<257, 303, 2, -1>>, <<305, 305, 1, -232>>,
      <<307, 311, 2, -1>>, <<314, 328, 2, -1>>, <<331, 375, 2, -1>>,
      <<378, 382, 2, -1>>, <<383, 383, 1, -300>>, <<384, 384, 1, 195>>,
      <<387, 389, 2, -1>>, <<392, 392, 1, -1>>, <<396, 396, 1, -1>>,
      <<402, 402, 1, -1>>, <<405, 405, 1, 97>>, <<409, 409, 1, -1>>,
      <<410, 410, 1, 163>>, <<411, 411, 1, 42561>>, <<414, 414, 1, 130>>,
      <<417, 421, 2, -1>>, <<424, 424, 1, -1>>, <<429, 429, 1, -1>>,
      <<432, 432, 1, -1>>, <<436, 438, 2, -1>>, <<441, 441, 1, -1>>,
      <<445, 445, 1, -1>>, <<447, 447, 1, 56>>, <<453, 453, 1, -1>>,
      <<454, 454, 1, -2>>, <<456, 456, 1, -1>>, <<457, 457, 1, -2>>,
      <<459, 459, 1, -1>>, <<460, 460, 1, -2>>, <<462, 476, 2, -1>>,
      <<477, 477, 1, -79>>, <<479, 495, 2, -1>>, <<498, 498, 1, -1>>,
      <<499, 499, 1, -2>>, <<501, 501, 1, -1>>, <<505, 543, 2, -1>>,
      <<547, 563, 2, -1>>, <<572, 572, 1, -1>>, <<575, 576, 1, 10815>>,
      <<578, 578, 1, -1>>, <<583, 591, 2, -1>>, <<592, 592, 1, 10783>>,
      <<593, 593, 1, 10780>>, <<594, 594, 1, 10782>>, <<595, 595, 1, -210>>,
      <<596, 596, 1, -206>>, <<598, 599, 1, -205>>, <<601, 601, 1, -202>>,
      <<603, 603, 1, -203>>, <<604, 604, 1, 42319>>, <<608, 608, 1, -205>>,
      <<609, 609, 1, 42315>>, <<611, 611, 1, -207>>, <<612, 612, 1, 42343>>,
      <<613, 613, 1, 42280>>, <<614, 614, 1, 42308>>, <<616, 616, 1, -209>>,
      <<617, 617, 1, -211>>, <<618, 618, 1, 42308>>, <<619, 619, 1, 10743>>,
      <<620, 620, 1, 42305>>, <<623, 623, 1, -211>>, <<625, 625, 1, 10749>>,
      <<626, 626, 1, -213>>, <<629, 629, 1, -214>>, <<637, 637, 1, 10727>>,
      <<640, 640, 1, -218>>, <<642, 642, 1, 42307>>, <<643, 643, 1, -218>>,
      <<647, 647, 1, 42282>>, <<648, 648, 1, -218>>, <<649, 649, 1, -69>>,
      <<650, 651, 1, -217>>, <<652, 652, 1, -71>>, <<658, 658, 1, -219>>,
      <<669, 669, 1, 42261>>, <<670, 670, 1, 42258>>, <<837, 837, 1, 84>>,
      <<881, 883, 2, -1>>, <<887, 887, 1, -1>>, <<891, 893, 1, 130>>,
      <<940, 940, 1, -38>>, <<941, 943, 1, -37>>, <<945, 961, 1, -32>>,
      <<962, 962, 1, -31>>, <<963, 971, 1, -32>>, <<972, 972, 1, -64>>,
      <<973, 974, 1, -63>>, <<976, 976, 1, -62>>, <<977, 977, 1, -57>>,
      <<981, 981, 1, -47>>, <<982, 982, 1, -54>>, <<983, 983, 1, -8>>,
      <<985, 1007, 2, -1>>, <<1008, 1008, 1, -86>>, <<1009, 1009, 1, -80>>,
      <<1010, 1010, 1, 7>>, <<1011, 1011, 1, -116>>, <<1013, 1013, 1, -96>>,
      <<1016, 1016, 1, -1>>, <<1019, 1019, 1, -1>>, <<1072, 1103, 1, -32>>,
      <<1104, 1119, 1, -80>>, <<1121, 1153, 2, -1>>, <<1163, 1215, 2, -1>>,
      <<1218, 1230, 2, -1>>, <<1231, 1231, 1, -15>>, <<1233, 1327, 2, -1>>,
      <<1377, 1414, 1, -48>>, <<4304, 4346, 1, 3008>>,
      <<4349, 4351, 1, 3008>>, <<5112, 5117, 1, -8>>,
      <<7296, 7296, 1, -6254>>, <<7297, 7297, 1, -6253>>,
      <<7298, 7298, 1, -6244>>, <<7299, 7300, 1, -6242>>,
      <<7301, 7301, 1, -6243>>, <<7302, 7302, 1, -6236>>,
      <<7303, 7303, 1, -6181>>, <<7304, 7304, 1, 35266>>,
      <<7306, 7306, 1, -1>>, <<7545, 7545, 1, 35332>>,
      <<7549, 7549, 1, 3814>>, <<7566, 7566, 1, 35384>>,
      <<7681, 7829, 2, -1>>, <<7835, 7835, 1, -59>>, <<7841, 7935, 2, -1>>,
      <<7936, 7943, 1, 8>>, <<7952, 7957, 1, 8>>, <<7968, 7975, 1, 8>>,
      <<7984, 7991, 1, 8>>, <<8000, 8005, 1, 8>>, <<8017, 8023, 2, 8>>,
      <<8032, 8039, 1, 8>>, <<8048, 8049, 1, 74>>, <<8050, 8053, 1, 86>>,
      <<8054, 8055, 1, 100>>, <<8056, 8057, 1, 128>>,
      <<8058, 8059, 1, 112>>, <<8060, 8061, 1, 126>>, <<8112, 8113, 1, 8>>,
      <<8126, 8126, 1, -7205>>, <<8144, 8145, 1, 8>>, <<8160, 8161, 1, 8>>,
      <<8165, 8165, 1, 7>>, <<8526, 8526, 1, -28>>, <<8560, 8575, 1, -16>>,
      <<8580, 8580, 1, -1>>, <<9424, 9449, 1, -26>>,
      <<11312, 11359, 1, -48>>, <<11361, 11361, 1, -1>>,
      <<11365, 11365, 1, -10795>>, <<11366, 11366, 1, -10792>>,
      <<11368, 11372, 2, -1>>, <<11379, 11379, 1, -1>>,
      <<11382, 11382, 1, -1>>, <<11393, 11491, 2, -1>>,
      <<11500, 11502, 2, -1>>, <<11507, 11507, 1, -1>>,
      <<11520, 11557, 1, -7264>>, <<11559, 11559, 1, -7264>>,
      <<11565, 11565, 1, -7264>>, <<42561, 42605, 2, -1>>,
      <<42625, 42651, 2, -1>>, <<42787, 42799, 2, -1>>,
      <<42803, 42863, 2, -1>>, <<42874, 42876, 2, -1>>,
      <<42879, 42887, 2, -1>>, <<42892, 42892, 1, -1>>,
      <<42897, 42899, 2, -1>>, <<42900, 42900, 1, 48>>,
      <<42903, 42921, 2, -1>>, <<42933, 42947, 2, -1>>,
      <<42952, 42954, 2, -1>>, <<42957, 42971, 2, -1>>,
      <<42998, 42998, 1, -1>>, <<43859, 43859, 1, -928>>,
      <<43888, 43967, 1, -38864>>, <<65345, 65370, 1, -32>>,
      <<66600, 66639, 1, -40>>, <<66776, 66811, 1, -40>>,
      <<66967, 66977, 1, -39>>, <<66979, 66993, 1, -39>>,
      <<66995, 67001, 1, -39>>, <<67003, 67004, 1, -39>>,
      <<68800, 68850, 1, -64>>, <<68976, 68997, 1, -32>>,
      <<71872, 71903, 1, -32>>, <<93792, 93823, 1, -32>>,
      <<93883, 93907, 1, -27>>, <<125218, 125251, 1, -34>>>>

\* toUpperCase of one code point gives several: <<code point, code units>>
UpperSpecial ==
    <<<<223, <<83, 83>>>>, <<329, <<700, 78>>>>, <<496, <<74, 780>>>>,
      <<912, <<921, 776, 769>>>>, <<944, <<933, 776, 769>>>>,
      <<1415, <<1333, 1362>>>>, <<7830, <<72, 817>>>>,
      <<7831, <<84, 776>>>>, <<7832, <<87, 778>>>>, <<7833, <<89, 778>>>>,
      <<7834, <<65, 702>>>>, <<8016, <<933, 787>>>>,
      <<8018, <<933, 787, 768>>>>, <<8020, <<933, 787, 769>>>>,
      <<8022, <<933, 787, 834>>>>, <<8064, <<7944, 921>>>>,
      <<8065, <<7945, 921>>>>, <<8066, <<7946, 921>>>>,
      <<8067, <<7947, 921>>>>, <<8068, <<7948, 921>>>>,
      <<8069, <<7949, 921>>>>, <<8070, <<7950, 921>>>>,
      <<8071, <<7951, 921>>>>, <<8072, <<7944, 921>>>>,
      <<8073, <<7945, 921>>>>, <<8074, <<7946, 921>>>>,
      <<8075, <<7947, 921>>>>, <<8076, <<7948, 921>>>>,
      <<8077, <<7949, 921>>>>, <<8078, <<7950, 921>>>>,
      <<8079, <<7951, 921>>>>, <<8080, <<7976, 921>>>>,
      <<8081, <<7977, 921>>>>, <<8082, <<7978, 921>>>>,
      <<8083, <<7979, 921>>>>, <<8084, <<7980, 921>>>>,
      <<8085, <<7981, 921>>>>, <<8086, <<7982, 921>>>>,
      <<8087, <<7983, 921>>>>, <<8088, <<7976, 921>>>>,
      <<8089, <<7977, 921>>>>, <<8090, <<7978, 921>>>>,
      <<8091, <<7979, 921>>>>, <<8092, <<7980, 921>>>>,
      <<8093, <<7981, 921>>>>, <<8094, <<7982, 921>>>>,
      <<8095, <<7983, 921>>>>, <<8096, <<8040, 921>>>>,
      <<8097, <<8041, 921>>>>, <<8098, <<8042, 921>>>>,
      <<8099, <<8043, 921>>>>, <<8100, <<8044, 921>>>>,
      <<8101, <<8045, 921>>>>, <<8102, <<8046, 921>>>>,
      <<8103, <<8047, 921>>>>, <<8104, <<8040, 921>>>>,
      <<8105, <<8041, 921>>>>, <<8106, <<8042, 921>>>>,
      <<8107, <<8043, 921>>>>, <<8108, <<8044, 921>>>>,
      <<8109, <<8045, 921>>>>, <<8110, <<8046, 921>>>>,
      <<8111, <<8047, 921>>>>, <<8114, <<8122, 921>>>>,
      <<8115, <<913, 921>>>>, <<8116, <<902, 921>>>>,
      <<8118, <<913, 834>>>>, <<8119, <<913, 834, 921>>>>,
      <<8124, <<913, 921>>>>, <<8130, <<8138, 921>>>>,
      <<8131, <<919, 921>>>>, <<8132, <<905, 921>>>>,
      <<8134, <<919, 834>>>>, <<8135, <<919, 834, 921>>>>,
      <<8140, <<919, 921>>>>, <<8146, <<921, 776, 768>>>>,
      <<8147, <<921, 776, 769>>>>, <<8150, <<921, 834>>>>,
      <<8151, <<921, 776, 834>>>>, <<8162, <<933, 776, 768>>>>,
      <<8163, <<933, 776, 769>>>>, <<8164, <<929, 787>>>>,
      <<8166, <<933, 834>>>>, <<8167, <<933, 776, 834>>>>,
      <<8178, <<8186, 921>>>>, <<8179, <<937, 921>>>>,
      <<8180, <<911, 921>>>>, <<8182, <<937, 834>>>>,
      <<8183, <<937, 834, 921>>>>, <<8188, <<937, 921>>>>,
      <<64256, <<70, 70>>>>, <<64257, <<70, 73>>>>, <<64258, <<70, 76>>>>,
      <<64259, <<70, 70, 73>>>>, <<64260, <<70, 70, 76>>>>,
      <<64261, <<83, 84>>>>, <<64262, <<83, 84>>>>,
      <<64275, <<1348, 1350>>>>, <<64276, <<1348, 1333>>>>,
      <<64277, <<1348, 1339>>>>, <<64278, <<1358, 1350>>>>,
      <<64279, <<1348, 1341>>>>>>

\* Cased letters that are not Case_Ignorable, and the Case_Ignorable code
\* points, outside ASCII: <<first, last>>
CasedRanges ==
    <<<<170, 170>>, <<181, 181>>, <<186, 186>>, <<192, 214>>, <<216, 246>>,
      <<248, 442>>, <<444, 447>>, <<452, 659>>, <<662, 687>>, <<880, 883>>,
      <<886, 887>>, <<891, 893>>, <<895, 895>>, <<902, 902>>, <<904, 906>>,
      <<908, 908>>, <<910, 929>>, <<931, 1013>>, <<1015, 1153>>,
      <<1162, 1327>>, <<1329, 1366>>, <<1376, 1416>>, <<4256, 4293>>,
      <<4295, 4295>>, <<4301, 4301>>, <<4304, 4346>>, <<4349, 4351>>,
      <<5024, 5109>>, <<5112, 5117>>, <<7296, 7306>>, <<7312, 7354>>,
      <<7357, 7359>>, <<7424, 7467>>, <<7531, 7543>>, <<7545, 7578>>,
      <<7680, 7957>>, <<7960, 7965>>, <<7968, 8005>>, <<8008, 8013>>,
      <<8016, 8023>>, <<8025, 8025>>, <<8027, 8027>>, <<8029, 8029>>,
      <<8031, 8061>>, <<8064, 8116>>, <<8118, 8124>>, <<8126, 8126>>,
      <<8130, 8132>>, <<8134, 8140>>, <<8144, 8147>>, <<8150, 8155>>,
      <<8160, 8172>>, <<8178, 8180>>, <<8182, 8188>>, <<8450, 8450>>,
      <<8455, 8455>>, <<8458, 8467>>, <<8469, 8469>>, <<8473, 8477>>,
      <<8484, 8484>>, <<8486, 8486>>, <<8488, 8488>>, <<8490, 8493>>,
      <<8495, 8500>>, <<8505, 8505>>, <<8508, 8511>>, <<8517, 8521>>,
      <<8526, 8526>>, <<8544, 8575>>, <<8579, 8580>>, <<9398, 9449>>,
      <<11264, 11387>>, <<11390, 11492>>, <<11499, 11502>>,
      <<11506, 11507>>, <<11520, 11557>>, <<11559, 11559>>,
      <<11565, 11565>>, <<42560, 42605>>, <<42624, 42651>>,
      <<42786, 42863>>, <<42865, 42887>>, <<42891, 42894>>,
      <<42896, 42972>>, <<42997, 42998>>, <<43002, 43002>>,
      <<43824, 43866>>, <<43872, 43880>>, <<43888, 43967>>,
      <<64256, 64262>>, <<64275, 64279>>, <<65313, 65338>>,
      <<65345, 65370>>, <<66560, 66639>>, <<66736, 66771>>,
      <<66776, 66811>>, <<66928, 66938>>, <<66940, 66954>>,
      <<66956, 66962>>, <<66964, 66965>>, <<66967, 66977>>,
      <<66979, 66993>>, <<66995, 67001>>, <<67003, 67004>>,
      <<68736, 68786>>, <<68800, 68850>>, <<68944, 68965>>,
      <<68976, 68997>>, <<71840, 71903>>, <<93760, 93823>>,
      <<93856, 93880>>, <<93883, 93907>>, <<119808, 119892>>,
      <<119894, 119964>>, <<119966, 119967>>, <<119970, 119970>>,
      <<119973, 119974>>, <<119977, 119980>>, <<119982, 119993>>,
      <<119995, 119995>>, <<119997, 120003>>, <<120005, 120069>>,
      <<120071, 120074>>, <<120077, 120084>>, <<120086, 120092>>,
      <<120094, 120121>>, <<120123, 120126>>, <<120128, 120132>>,
      <<120134, 120134>>, <<120138, 120144>>, <<120146, 120485>>,
      <<120488, 120512>>, <<120514, 120538>>, <<120540, 120570>>,
      <<120572, 120596>>, <<120598, 120628>>, <<120630, 120654>>,
      <<120656, 120686>>, <<120688, 120712>>, <<120714, 120744>>,
      <<120746, 120770>>, <<120772, 120779>>, <<122624, 122633>>,
      <<122635, 122654>>, <<122661, 122666>>, <<125184, 125251>>,
      <<127280, 127305>>, <<127312, 127337>>, <<127344, 127369>>>>

CaseIgnorableRanges ==
    <<<<168, 168>>, <<173, 173>>, <<175, 175>>, <<180, 180>>, <<183, 184>>,
      <<688, 879>>, <<884, 885>>, <<890, 890>>, <<900, 901>>, <<903, 903>>,
      <<1155, 1161>>, <<1369, 1369>>, <<1375, 1375>>, <<1425, 1469>>,
      <<1471, 1471>>, <<1473, 1474>>, <<1476, 1477>>, <<1479, 1479>>,
      <<1524, 1524>>, <<1536, 1541>>, <<1552, 1562>>, <<1564, 1564>>,
      <<1600, 1600>>, <<1611, 1631>>, <<1648, 1648>>, <<1750, 1757>>,
      <<1759, 1768>>, <<1770, 1773>>, <<1807, 1807>>, <<1809, 1809>>,
      <<1840, 1866>>, <<1958, 1968>>, <<2027, 2037>>, <<2042, 2042>>,
      <<2045, 2045>>, <<2070, 2093>>, <<2137, 2139>>, <<2184, 2184>>,
      <<2192, 2193>>, <<2199, 2207>>, <<2249, 2306>>, <<2362, 2362>>,
      <<2364, 2364>>, <<2369, 2376>>, <<2381, 2381>>, <<2385, 2391>>,
      <<2402, 2403>>, <<2417, 2417>>, <<2433, 2433>>, <<2492, 2492>>,
      <<2497, 2500>>, <<2509, 2509>>, <<2530, 2531>>, <<2558, 2558>>,
      <<2561, 2562>>, <<2620, 2620>>, <<2625, 2626>>, <<2631, 2632>>,
      <<2635, 2637>>, <<2641, 2641>>, <<2672, 2673>>, <<2677, 2677>>,
      <<2689, 2690>>, <<2748, 2748>>, <<2753, 2757>>, <<2759, 2760>>,
      <<2765, 2765>>, <<2786, 2787>>, <<2810, 2815>>, <<2817, 2817>>,
      <<2876, 2876>>, <<2879, 2879>>, <<2881, 2884>>, <<2893, 2893>>,
      <<2901, 2902>>, <<2914, 2915>>, <<2946, 2946>>, <<3008, 3008>>,
      <<3021, 3021>>, <<3072, 3072>>, <<3076, 3076>>, <<3132, 3132>>,
      <<3134, 3136>>, <<3142, 3144>>, <<3146, 3149>>, <<3157, 3158>>,
      <<3170, 3171>>, <<3201, 3201>>, <<3260, 3260>>, <<3263, 3263>>,
      <<3270, 3270>>, <<3276, 3277>>, <<3298, 3299>>, <<3328, 3329>>,
      <<3387, 3388>>, <<3393, 3396>>, <<3405, 3405>>, <<3426, 3427>>,
      <<3457, 3457>>, <<3530, 3530>>, <<3538, 3540>>, <<3542, 3542>>,
      <<3633, 3633>>, <<3636, 3642>>, <<3654, 3662>>, <<3761, 3761>>,
      <<3764, 3772>>, <<3782, 3782>>, <<3784, 3790>>, <<3864, 3865>>,
      <<3893, 3893>>, <<3895, 3895>>, <<3897, 3897>>, <<3953, 3966>>,
      <<3968, 3972>>, <<3974, 3975>>, <<3981, 3991>>, <<3993, 4028>>,
      <<4038, 4038>>, <<4141, 4144>>, <<4146, 4151>>, <<4153, 4154>>,
      <<4157, 4158>>, <<4184, 4185>>, <<4190, 4192>>, <<4209, 4212>>,
      <<4226, 4226>>, <<4229, 4230>>, <<4237, 4237>>, <<4253, 4253>>,
      <<4348, 4348>>, <<4957, 4959>>, <<5906, 5908>>, <<5938, 5939>>,
      <<5970, 5971>>, <<6002, 6003>>, <<6068, 6069>>, <<6071, 6077>>,
      <<6086, 6086>>, <<6089, 6099>>, <<6103, 6103>>, <<6109, 6109>>,
      <<6155, 6159>>, <<6211, 6211>>, <<6277, 6278>>, <<6313, 6313>>,
      <<6432, 6434>>, <<6439, 6440>>, <<6450, 6450>>, <<6457, 6459>>,
      <<6679, 6680>>, <<6683, 6683>>, <<6742, 6742>>, <<6744, 6750>>,
      <<6752, 6752>>, <<6754, 6754>>, <<6757, 6764>>, <<6771, 6780>>,
      <<6783, 6783>>, <<6823, 6823>>, <<6832, 6877>>, <<6880, 6891>>,
      <<6912, 6915>>, <<6964, 6964>>, <<6966, 6970>>, <<6972, 6972>>,
      <<6978, 6978>>, <<7019, 7027>>, <<7040, 7041>>, <<7074, 7077>>,
      <<7080, 7081>>, <<7083, 7085>>, <<7142, 7142>>, <<7144, 7145>>,
      <<7149, 7149>>, <<7151, 7153>>, <<7212, 7219>>, <<7222, 7223>>,
      <<7288, 7293>>, <<7376, 7378>>, <<7380, 7392>>, <<7394, 7400>>,
      <<7405, 7405>>, <<7412, 7412>>, <<7416, 7417>>, <<7468, 7530>>,
      <<7544, 7544>>, <<7579, 7679>>, <<8125, 8125>>, <<8127, 8129>>,
      <<8141, 8143>>, <<8157, 8159>>, <<8173, 8175>>, <<8189, 8190>>,
      <<8203, 8207>>, <<8216, 8217>>, <<8228, 8228>>, <<8231, 8231>>,
      <<8234, 8238>>, <<8288, 8292>>, <<8294, 8303>>, <<8305, 8305>>,
      <<8319, 8319>>, <<8336, 8348>>, <<8400, 8432>>, <<11388, 11389>>,
      <<11503, 11505>>, <<11631, 11631>>, <<11647, 11647>>,
      <<11744, 11775>>, <<11823, 11823>>, <<12293, 12293>>,
      <<12330, 12333>>, <<12337, 12341>>, <<12347, 12347>>,
      <<12441, 12446>>, <<12540, 12542>>, <<40981, 40981>>,
      <<42232, 42237>>, <<42508, 42508>>, <<42607, 42610>>,
      <<42612, 42621>>, <<42623, 42623>>, <<42652, 42655>>,
      <<42736, 42737>>, <<42752, 42785>>, <<42864, 42864>>,
      <<42888, 42890>>, <<42993, 42996>>, <<43000, 43001>>,
      <<43010, 43010>>, <<43014, 43014>>, <<43019, 43019>>,
      <<43045, 43046>>, <<43052, 43052>>, <<43204, 43205>>,
      <<43232, 43249>>, <<43263, 43263>>, <<43302, 43309>>,
      <<43335, 43345>>, <<43392, 43394>>, <<43443, 43443>>,
      <<43446, 43449>>, <<43452, 43453>>, <<43471, 43471>>,
      <<43493, 43494>>, <<43561, 43566>>, <<43569, 43570>>,
      <<43573, 43574>>, <<43587, 43587>>, <<43596, 43596>>,
      <<43632, 43632>>, <<43644, 43644>>, <<43696, 43696>>,
      <<43698, 43700>>, <<43703, 43704>>, <<43710, 43711>>,
      <<43713, 43713>>, <<43741, 43741>>, <<43756, 43757>>,
      <<43763, 43764>>, <<43766, 43766>>, <<43867, 43871>>,
      <<43881, 43883>>, <<44005, 44005>>, <<44008, 44008>>,
      <<44013, 44013>>, <<64286, 64286>>, <<64434, 64450>>,
      <<65024, 65039>>, <<65043, 65043>>, <<65056, 65071>>,
      <<65106, 65106>>, <<65109, 65109>>, <<65279, 65279>>,
      <<65287, 65287>>, <<65294, 65294>>, <<65306, 65306>>,
      <<65342, 65342>>, <<65344, 65344>>, <<65392, 65392>>,
      <<65438, 65439>>, <<65507, 65507>>, <<65529, 65531>>,
      <<66045, 66045>>, <<66272, 66272>>, <<66422, 66426>>,
      <<67456, 67461>>, <<67463, 67504>>, <<67506, 67514>>,
      <<68097, 68099>>, <<68101, 68102>>, <<68108, 68111>>,
      <<68152, 68154>>, <<68159, 68159>>, <<68325, 68326>>,
      <<68900, 68903>>, <<68942, 68942>>, <<68969, 68973>>,
      <<68975, 68975>>, <<69291, 69292>>, <<69317, 69317>>,
      <<69370, 69375>>, <<69446, 69456>>, <<69506, 69509>>,
      <<69633, 69633>>, <<69688, 69702>>, <<69744, 69744>>,
      <<69747, 69748>>, <<69759, 69761>>, <<69811, 69814>>,
      <<69817, 69818>>, <<69821, 69821>>, <<69826, 69826>>,
      <<69837, 69837>>, <<69888, 69890>>, <<69927, 69931>>,
      <<69933, 69940>>, <<70003, 70003>>, <<70016, 70017>>,
      <<70070, 70078>>, <<70089, 70092>>, <<70095, 70095>>,
      <<70191, 70193>>, <<70196, 70196>>, <<70198, 70199>>,
      <<70206, 70206>>, <<70209, 70209>>, <<70367, 70367>>,
      <<70371, 70378>>, <<70400, 70401>>, <<70459, 70460>>,
      <<70464, 70464>>, <<70502, 70508>>, <<70512, 70516>>,
      <<70587, 70592>>, <<70606, 70606>>, <<70608, 70608>>,
      <<70610, 70610>>, <<70625, 70626>>, <<70712, 70719>>,
      <<70722, 70724>>, <<70726, 70726>>, <<70750, 70750>>,
      <<70835, 70840>>, <<70842, 70842>>, <<70847, 70848>>,
      <<70850, 70851>>, <<71090, 71093>>, <<71100, 71101>>,
      <<71103, 71104>>, <<71132, 71133>>, <<71219, 71226>>,
      <<71229, 71229>>, <<71231, 71232>>, <<71339, 71339>>,
      <<71341, 71341>>, <<71344, 71349>>, <<71351, 71351>>,
      <<71453, 71453>>, <<71455, 71455>>, <<71458, 71461>>,
      <<71463, 71467>>, <<71727, 71735>>, <<71737, 71738>>,
      <<71995, 71996>>, <<71998, 71998>>, <<72003, 72003>>,
      <<72148, 72151>>, <<72154, 72155>>, <<72160, 72160>>,
      <<72193, 72202>>, <<72243, 72248>>, <<72251, 72254>>,
      <<72263, 72263>>, <<72273, 72278>>, <<72281, 72283>>,
      <<72330, 72342>>, <<72344, 72345>>, <<72544, 72544>>,
      <<72546, 72548>>, <<72550, 72550>>, <<72752, 72758>>,
      <<72760, 72765>>, <<72767, 72767>>, <<72850, 72871>>,
      <<72874, 72880>>, <<72882, 72883>>, <<72885, 72886>>,
      <<73009, 73014>>, <<73018, 73018>>, <<73020, 73021>>,
      <<73023, 73029>>, <<73031, 73031>>, <<73104, 73105>>,
      <<73109, 73109>>, <<73111, 73111>>, <<73177, 73177>>,
      <<73459, 73460>>, <<73472, 73473>>, <<73526, 73530>>,
      <<73536, 73536>>, <<73538, 73538>>, <<73562, 73562>>,
      <<78896, 78912>>, <<78919, 78933>>, <<90398, 90409>>,
      <<90413, 90415>>, <<92912, 92916>>, <<92976, 92982>>,
      <<92992, 92995>>, <<93504, 93506>>, <<93547, 93548>>,
      <<94031, 94031>>, <<94095, 94111>>, <<94176, 94177>>,
      <<94179, 94180>>, <<94194, 94195>>, <<110576, 110579>>,
      <<110581, 110587>>, <<110589, 110590>>, <<113821, 113822>>,
      <<113824, 113827>>, <<118528, 118573>>, <<118576, 118598>>,
      <<119143, 119145>>, <<119155, 119170>>, <<119173, 119179>>,
      <<119210, 119213>>, <<119362, 119364>>, <<121344, 121398>>,
      <<121403, 121452>>, <<121461, 121461>>, <<121476, 121476>>,
      <<121499, 121503>>, <<121505, 121519>>, <<122880, 122886>>,
      <<122888, 122904>>, <<122907, 122913>>, <<122915, 122916>>,
      <<122918, 122922>>, <<122928, 122989>>, <<123023, 123023>>,
      <<123184, 123197>>, <<123566, 123566>>, <<123628, 123631>>,
      <<124139, 124143>>, <<124398, 124399>>, <<124643, 124643>>,
      <<124646, 124646>>, <<124654, 124655>>, <<124661, 124661>>,
      <<124671, 124671>>, <<125136, 125142>>, <<125252, 125259>>,
      <<127995, 127999>>, <<917505, 917505>>, <<917536, 917631>>,
      <<917760, 917999>>>>

\* the code point a table of ranges maps cp to
Mapped(cp, ranges) ==
    LET hits == {k \in DOMAIN ranges :
                    /\ ranges[k][1] <= cp
                    /\ cp <= ranges[k][2]
                    /\ (cp - ranges[k][1]) % ranges[k][3] = 0}
    IN  IF hits = {} THEN cp ELSE cp + ranges[CHOOSE k \in hits : TRUE][4]

InRanges(cp, ranges) ==
    \E k \in DOMAIN ranges : ranges[k][1] <= cp /\ cp <= ranges[k][2]

CaseIgnorable(cp) ==
    IF cp < 128 THEN cp \in {39, 46, 58, 94, 96} ELSE InRanges(cp, CaseIgnorableRanges)

Cased(cp) ==
    IF cp < 128 THEN cp \in (65..90) \cup (97..122) ELSE InRanges(cp, CasedRanges)

\* Final_Sigma: before place k there is a cased letter, then Case_Ignorable
\* code points only
RECURSIVE PrecededByCased(_, _)
PrecededByCased(text, k) ==
    IF k < 1 THEN FALSE
    ELSE LET cp == CodePointBefore(text, k)
         IN  IF CaseIgnorable(cp) THEN PrecededByCased(text, k - Width(cp))
             ELSE Cased(cp)

\* Final_Sigma: from place k on there are Case_Ignorable code points, then a
\* cased letter
RECURSIVE FollowedByCased(_, _)
FollowedByCased(text, k) ==
    IF k > Len(text) THEN FALSE
    ELSE LET cp == CodePointAt(text, k)
         IN  IF CaseIgnorable(cp) THEN FollowedByCased(text, k + Width(cp))
             ELSE Cased(cp)

\* the lower case of the code point that begins at place k
LowerOf(text, k) ==
    LET cp == CodePointAt(text, k)
    IN  IF cp < 128 THEN <<IF cp \in 65..90 THEN cp + 32 ELSE cp>>
        ELSE IF cp = 304 THEN <<105, 775>>
        ELSE IF cp = 931
             THEN IF PrecededByCased(text, k - 1) /\ ~FollowedByCased(text, k + 1)
                  THEN <<962>> ELSE <<963>>
        ELSE Encode(Mapped(cp, LowerRanges))

RECURSIVE LowerFrom(_, _)
LowerFrom(text, k) ==
    IF k > Len(text) THEN <<>>
    ELSE LowerOf(text, k) \o LowerFrom(text, k + Width(CodePointAt(text, k)))

\* text.toLowerCase()
LowerCase(path) == LowerFrom(path, 1)

\* the upper case of a code point
UpperOf(cp) ==
    LET special == {k \in DOMAIN UpperSpecial : UpperSpecial[k][1] = cp}
    IN  IF cp < 128 THEN <<IF cp \in 97..122 THEN cp - 32 ELSE cp>>
        ELSE IF special # {} THEN UpperSpecial[CHOOSE k \in special : TRUE][2]
        ELSE Encode(Mapped(cp, UpperRanges))

RECURSIVE UpperFrom(_, _)
UpperFrom(text, k) ==
    IF k > Len(text) THEN <<>>
    ELSE UpperOf(CodePointAt(text, k))
         \o UpperFrom(text, k + Width(CodePointAt(text, k)))

\* text.toUpperCase()
UpperCase(path) == UpperFrom(path, 1)

\* filePath.replace(/\\/g, '/')
ReplaceBackslashes(path) ==
    [k \in 1..Len(path) |-> IF path[k] = 92 THEN 47 ELSE path[k]]

\* path.split('/')
RECURSIVE Segments(_)
Segments(path) ==
    LET k == IndexIn("/", path)
    IN  IF k = Len(path) THEN <<path>>
        ELSE <<SubSeq(path, 1, k)>> \o Segments(SubSeq(path, k + 2, Len(path)))

Basename(path) == Segments(path)[Len(Segments(path))]

\* classifyFileType
ClassifyFileType(filePath) ==
    LET normalizedPath == LowerCase(ReplaceBackslashes(filePath)) IN
    IF \E suffix \in {Units("boostrap.tsx"), Units("layout.tsx"),
                      Units("notfound.tsx"), Units("scripts.tsx")} :
          EndsWith(normalizedPath, suffix)
    THEN "Page"
    ELSE IF \E suffix \in {Units("component-props/index.ts"),
                           Units("next.config.js")} :
               EndsWith(normalizedPath, suffix)
    THEN "Config"
    ELSE IF /\ HasInfix(normalizedPath, Units("/components/"))
            /\ EndsWith(normalizedPath, Units(".tsx"))
    THEN "Component"
    ELSE IF HasInfix(normalizedPath, Units("/middleware/plugins"))
    THEN "Middleware"
    ELSE IF HasInfix(normalizedPath, Units("/pages/api/"))
    THEN "API Route"
    ELSE IF /\ HasInfix(normalizedPath, Units("/pages/"))
            /\ EndsWith(normalizedPath, Units(".tsx"))
    THEN "Page"
    ELSE IF HasInfix(normalizedPath, Units("/page-props-factory/plugins/"))
    THEN "Plugin"
    ELSE IF EndsWith(normalizedPath, Units("/package.json"))
    THEN "Package"
    ELSE "Module"

FILE_TYPES_TO_ANALYZE ==
    {"Plugin", "Middleware", "Package", "Component", "Page", "API Route", "Config"}

\* A rule of an ignore file: a name, or "*" followed by the end of a name;
\* neg is a leading "!"
Rule(text) == [neg |-> FALSE, star |-> FALSE, text |-> text]
StarRule(text) == [neg |-> FALSE, star |-> TRUE, text |-> text]
NotRule(text) == [neg |-> TRUE, star |-> FALSE, text |-> text]

\* variant: the list without 'api'
DefaultIgnoresWithoutApi ==
    <<Rule("node_modules"), Rule(".next"), Rule(".turbo"),
      Rule(".swc"), Rule(".sonarlint"), Rule("dist"),
      Rule("build"), Rule("local-containers"), Rule("spa-starters"),
      Rule("byoc"), Rule("feaas"), Rule("temp"),
      Rule("next-env.d.ts"), Rule("generate-component-builder"),
      Rule("scaffold-component"), Rule("sitemap-fetcher"),
      Rule("site-resolver"), Rule("extract-path"), Rule("__tests__"),
      Rule("__mocks__"), Rule("__fixtures__"), Rule("__stories__"),
      Rule("__test-utils__"), Rule("__test-helpers__"),
      Rule("__test-utils__"), Rule("__data__"),
      StarRule(".stories.tsx")>>

\* the rules of ig.add([...]), analyser.ts 204-233
DefaultIgnores ==
    <<Rule("node_modules"), Rule(".next"), Rule(".turbo"),
      Rule(".swc"), Rule(".sonarlint"), Rule("dist"),
      Rule("build"), Rule("local-containers"), Rule("spa-starters"),
      Rule("byoc"), Rule("feaas"), Rule("temp"), Rule("api"),
      Rule("next-env.d.ts"), Rule("generate-component-builder"),
      Rule("scaffold-component"), Rule("sitemap-fetcher"),
      Rule("site-resolver"), Rule("extract-path"), Rule("__tests__"),
      Rule("__mocks__"), Rule("__fixtures__"), Rule("__stories__"),
      Rule("__test-utils__"), Rule("__test-helpers__"),
      Rule("__test-utils__"), Rule("__data__"),
      StarRule(".stories.tsx")>>

\* a rule without "/" is matched against one name of the path, whatever the
\* case of the letters
RuleMatches(rule, segment) ==
    IF rule.star
    THEN /\ Len(rule.text) <= Len(segment)
         /\ EndsWith(LowerCase(Units(segment)), LowerCase(Units(rule.text)))
    ELSE /\ Len(rule.text) = Len(segment)
         /\ LowerCase(Units(segment)) = LowerCase(Units(rule.text))

\* the last rule that matches decides; no rule: not ignored
NameIgnored(rules, segment) ==
    LET hits == {k \in DOMAIN rules : RuleMatches(rules[k], segment)}
    IN  hits # {} /\ ~rules[CHOOSE k \in hits : \A j \in hits : j <= k].neg

\* ig.ignores(path): the path is ignored when one of its names is, its file
\* name or a directory above it (what lies under an ignored directory cannot
\* be included again)
Ignores(rules, path) ==
    LET names == Segments(path)
    IN  \E k \in DOMAIN names : NameIgnored(rules, names[k])

\* glob('**/*.{ts,tsx}', {dot: true})
IsSourceFile(path) == EndsWith(path, ".ts") \/ EndsWith(path, ".tsx")

\* variant: glob('**/package.json', {dot: true})
IsPackageJsonDotted(path) == Basename(path) = "package.json"

\* glob('**/package.json', {dot: false}): no name of the path starts with "."
IsPackageJson(path) ==
    /\ Basename(path) = "package.json"
    /\ \A k \in DOMAIN Segments(path) : ~StartsWith(Segments(path)[k], ".")

\* new Error(`Project path does not exist: ${projectPath}`)
PathNotFoundError ==
    [axios |-> FALSE, code |-> "",
     message |-> "Project path does not exist:",
     hasResponse |-> FALSE, hasRequest |-> FALSE,
     status |-> 0, statusText |-> "", data |-> "", retryAfter |-> NoHeader]

\* candidatePaths: the override when one is given, then projectPath/.gitignore
CandidatePaths(p) ==
    (IF p.overrideArg # "none"
     THEN <<[which |-> "override", file |-> p.overrideFile]>> ELSE <<>>)
    \o <<[which |-> "root", file |-> p.rootIgnore]>>

\* variant: the loop goes on after the first file it has read
CandidatesReadAll(candidates) ==
    SelectSeq(candidates, LAMBDA c : c.file # None)

\* the loop over candidatePaths reads the first one that exists, and stops
CandidatesRead(candidates) ==
    LET found == {k \in DOMAIN candidates : candidates[k].file # None}
    IN  IF found = {} THEN <<>>
        ELSE <<candidates[CHOOSE k \in found : \A j \in found : k <= j]>>

RECURSIVE RulesOf(_)
RulesOf(read) ==
    IF read = <<>> THEN <<>>
    ELSE OrElse(Head(read).file, <<>>) \o RulesOf(Tail(read))

NoDisc == [reads |-> <<>>, warned |-> FALSE, ig |-> <<>>, globs |-> 0,
           allFiles |-> <<>>, relevantFiles |-> <<>>, filteredFiles |-> <<>>]

\* variant: the default rules are added first, the rules of the file after
LoadIgnoreDefaultsFirst(p) ==
    LET read == CandidatesRead(CandidatePaths(p))
    IN  [NoDisc EXCEPT
           !.reads = [k \in DOMAIN read |-> read[k].which],
           !.warned = (p.overrideArg # "none" /\ read = <<>>),
           !.ig = DefaultIgnores \o RulesOf(read)]

\* analyser.ts 174-233: ig, the warning, the default rules
LoadIgnore(p) ==
    LET read == CandidatesRead(CandidatePaths(p))
    IN  [NoDisc EXCEPT
           !.reads = [k \in DOMAIN read |-> read[k].which],
           !.warned = (p.overrideArg # "none" /\ read = <<>>),
           !.ig = RulesOf(read) \o DefaultIgnores]

\* variant: the ignore files are loaded before the project path is checked
AnalyzeEntryChecksLate(p) ==
    IF ~p.exists
    THEN [phase |-> "failed", thrown |-> PathNotFoundError, disc |-> LoadIgnore(p)]
    ELSE [phase |-> "globbing sources", thrown |-> NoError,
          disc |-> [LoadIgnore(p) EXCEPT !.globs = 1]]

\* analyzeCodebase up to its first await: the path is checked, the ignore
\* rules are loaded, glob is called for the source files
AnalyzeEntry(p) ==
    IF ~p.exists
    THEN [phase |-> "failed", thrown |-> PathNotFoundError, disc |-> NoDisc]
    ELSE [phase |-> "globbing sources", thrown |-> NoError,
          disc |-> [LoadIgnore(p) EXCEPT !.globs = 1]]

\* variant: the files are not filtered by their type
FilteredUnclassified(d, allFiles) ==
    LET relevant == SelectSeq(allFiles, LAMBDA f : ~Ignores(d.ig, f))
    IN  [d EXCEPT
           !.allFiles = allFiles,
           !.relevantFiles = relevant,
           !.filteredFiles = relevant]

\* classifyFileType(file) of a file of the project tree
RoleOf(path) == ClassifyFileType(Units(path))

\* relevantFiles and filteredFiles of allFiles
Filtered(d, allFiles) ==
    LET relevant == SelectSeq(allFiles, LAMBDA f : ~Ignores(d.ig, f))
    IN  [d EXCEPT
           !.allFiles = allFiles,
           !.relevantFiles = relevant,
           !.filteredFiles =
               SelectSeq(relevant, LAMBDA f : RoleOf(f) \in FILE_TYPES_TO_ANALYZE)]

\* the files a project is made of, and the rules its ignore files hold
NextOutputFile == ".next/server/pages/index.tsx"
DistFile == "dist/components/Foo.tsx"
BuildFile == "apps/web/build/middleware/plugins/bar.ts"
DependencyFile == "node_modules/pkg/components/Foo.tsx"
UtilFile == "src/lib/util.ts"
FooFile == "src/components/Foo.tsx"
BarFile == "src/middleware/plugins/bar.ts"
RootPackageFile == "package.json"
NestedPackageFile == "node_modules/x/package.json"
StorybookPackageFile == ".storybook/package.json"
WebPackageFile == "apps/web/package.json"
LegacyFile == "src/legacy/components/Old.tsx"
DraftFile == "src/drafts/pages/Draft.tsx"
ProjectFiles ==
    <<FooFile,
      "src/components/Foo.stories.tsx",
      "src/pages/api/hello.ts",
      LegacyFile,
      DraftFile,
      "src/Layout.tsx",
      UtilFile,
      "node_modules/pkg/package.json",
      RootPackageFile,
      WebPackageFile,
      StorybookPackageFile,
      "README.md",
      NextOutputFile,
      DistFile,
      BuildFile,
      DependencyFile,
      BarFile>>

\* the project of the discovery scenario of the specification
ScenarioTree == <<FooFile, BarFile, NestedPackageFile, RootPackageFile>>

\* the trees of at most MaxTree files, and the scenario's
Trees ==
    {SelectSeq(ProjectFiles, LAMBDA f : \E k \in chosen : ProjectFiles[k] = f) :
        chosen \in {c \in SUBSET DOMAIN ProjectFiles : Cardinality(c) <= MaxTree}}
    \cup {ScenarioTree}

RootRules ==
    {<<Rule("legacy")>>, <<Rule("legacy"), Rule("drafts")>>,
     <<Rule("legacy"), NotRule("node_modules"), NotRule("dist"),
       NotRule("api")>>}
OverrideRules ==
    {<<Rule("drafts")>>, <<>>,
     <<NotRule(".next"), NotRule("build"), NotRule("node_modules"),
       NotRule("api")>>}

Projects ==
    {p \in [exists : BOOLEAN, tree : Trees,
            rootIgnore : {None} \cup {Some(r) : r \in RootRules},
            overrideArg : {"none", "relative", "absolute"},
            overrideFile : {None} \cup {Some(r) : r \in OverrideRules}] :
        /\ p.overrideArg = "none" => p.overrideFile = None
        /\ ~p.exists =>
              /\ p.tree = <<>>
              /\ p.rootIgnore = None
              /\ p.overrideArg = "relative" => p.overrideFile = None}

InitDiscover ==
    /\ project \in Projects
    /\ disc = NoDisc
    /\ phase = "entry"
    /\ whatIf \in BOOLEAN
    /\ thrown = NoError
    /\ totalFiles = 0
    /\ throttle = DefaultThrottle
    /\ task = <<>>
    /\ hist = <<>>
    /\ queue = <<>>
    /\ intervalCount = 0
    /\ completedCount = 0
    /\ timedOutFiles = <<>>
    /\ failedFiles = <<>>
    /\ successfulFiles = None
    /\ jobId = None
    /\ reports = None
    /\ initiateCount = 0
    /\ finaliseCount = 0
    /\ finaliseRoute = None
    /\ finaliseAnswer = "none"
    /\ rOpts = UploadOptions
    /\ rCall = IdleCall
    /\ delayMs = 0
    /\ now = 0
    /\ TimeUnused

\* analyzeCodebase is called
AnalyzeCodebase ==
    /\ phase = "entry"
    /\ phase' = AnalyzeEntry(project).phase
    /\ thrown' = AnalyzeEntry(project).thrown
    /\ disc' = AnalyzeEntry(project).disc
    /\ UNCHANGED <<project, totalFiles, throttle, task, hist, queue, intervalCount,
                   completedCount, timedOutFiles, failedFiles,
                   successfulFiles, jobId, reports, initiateCount, finaliseCount, finaliseRoute,
                   finaliseAnswer, whatIf, retryVars, timeVars>>

\* the glob of the source files is over: glob is called for the package.json
\* files
SourcesGlobbed ==
    /\ phase = "globbing sources"
    /\ phase' = "globbing packages"
    /\ disc' = [disc EXCEPT !.globs = @ + 1,
                            !.allFiles = SelectSeq(project.tree, IsSourceFile)]
    /\ UNCHANGED <<project, totalFiles, throttle, task, hist, queue, intervalCount,
                   completedCount, timedOutFiles, failedFiles,
                   successfulFiles, jobId, reports, initiateCount, finaliseCount, finaliseRoute,
                   finaliseAnswer, whatIf, thrown, retryVars, timeVars>>

\* the glob of the package.json files is over: the files are filtered and
\* listed, then analyzeCodebase returns (what-if) or calls readAndAnalyzeFiles,
\* which sends the initiate request
PackagesGlobbed ==
    /\ phase = "globbing packages"
    /\ LET d == Filtered(disc, disc.allFiles \o SelectSeq(project.tree, IsPackageJson))
       IN  /\ disc' = d
           /\ totalFiles' = Len(d.filteredFiles)
    /\ IF WhatIf(whatIf)
       THEN phase' = "returned" /\ UNCHANGED initiateCount
       ELSE phase' = "initiating" /\ initiateCount' = initiateCount + 1
    /\ UNCHANGED <<project, throttle, task, hist, queue, intervalCount,
                   completedCount, timedOutFiles, failedFiles,
                   successfulFiles, jobId, reports, finaliseCount, finaliseRoute,
                   finaliseAnswer, whatIf, thrown, retryVars, timeVars>>

NextDiscover ==
    \/ AnalyzeCodebase
    \/ SourcesGlobbed
    \/ PackagesGlobbed

SpecDiscover == InitDiscover /\ [][NextDiscover]_vars

-----------------------------------------------------------------------------
(* SpecClassify: one call of classifyFileType.                             *)
(* project is [filePath]: the argument, in code units; disc is [fileType]: *)
(* the value returned, None before the call.                               *)

RetryUnused ==
    /\ rOpts = UploadOptions
    /\ rCall = IdleCall
    /\ delayMs = 0
    /\ now = 0

Join(dir, name) == IF dir = "" THEN name ELSE dir \o "/" \o name

\* the directories and the file names the paths are made of
ClassifyDirs ==
    {"", "src", "src/lib", "src/middleware/plugins-extra", "src/lib/my-component-props",
     "src/components",
     "src/components/pages",
     "src/middleware/plugins",
     "src/middleware/plugins/component-props",
     "src/pages",
     "src/pages/api",
     "src/lib/page-props-factory/plugins",
     "src/lib/component-props"}
ClassifyNames ==
    {"Foo.tsx", "Layout.tsx", "MyLayout.tsx", "NotFound.tsx", "index.ts",
     "package.json", "Bootstrap.tsx", "next.config.js", "my-next.config.js"}

\* a path with the separator of Windows
Backslashed(path) == [k \in 1..Len(path) |-> IF path[k] = 47 THEN 92 ELSE path[k]]

\* paths with a letter outside ASCII: LATIN CAPITAL LETTER E WITH ACUTE,
\* KELVIN SIGN (its lower case is k), LATIN SMALL LETTER DOTLESS I (its
\* upper case is I), LATIN SMALL LETTER LONG S (its upper case is S) and
\* LATIN SMALL LIGATURE FI (its upper case is FI)
UnicodePaths ==
    {Units("src/pages/") \o <<201>> \o Units(".tsx"),
     Units("apps/web/pac") \o <<8490>> \o Units("age.json"),
     Units("src/lib/scr") \o <<305>> \o Units("pts.tsx"),
     Units("src/lib/") \o <<383>> \o Units("cripts.tsx"),
     Units("next.con") \o <<64257>> \o Units("g.js")}

\* each path as it is, in capitals, and with the separator of Windows
ClassifyInputs ==
    LET plain == {Units(Join(dir, name)) : dir \in ClassifyDirs, name \in ClassifyNames}
                 \cup UnicodePaths
        cased == plain \cup {UpperCase(path) : path \in plain}
    IN  cased \cup {Backslashed(path) : path \in cased}

InitClassify ==
    /\ project \in [filePath : ClassifyInputs]
    /\ disc = [fileType |-> None]
    /\ RunUnused
    /\ RetryUnused
    /\ TimeUnused

\* classifyFileType(filePath) is called and returns
Classify ==
    /\ disc.fileType = None
    /\ disc' = [fileType |-> Some(ClassifyFileType(project.filePath))]
    /\ UNCHANGED <<project, runVars, retryVars, timeVars>>

NextClassify == Classify

SpecClassify == InitClassify /\ [][NextClassify]_vars

-----------------------------------------------------------------------------
(* SpecUrl: getConfig, then one call of buildServiceUrl.                   *)
(* project is [apiKey, debug, serviceVersion, route]: the arguments; disc  *)
(* is [url]: the value returned, None before the call.                     *)

LocalHost == "http://localhost:7071"
ServiceHost(serviceVersion) ==
    "https://api-think-fresh-digital.azure-api.net/content-sdk/" \o serviceVersion

\* getConfig: the fields of ServiceConfig that buildServiceUrl reads
GetConfig(apiKey, debug, serviceVersion) ==
    [SERVICE_HOST |-> IF debug THEN LocalHost ELSE ServiceHost(serviceVersion),
     SERVICE_KEY |-> apiKey,
     DEBUG |-> debug]

\* variant: host and route are joined as they are
BuildServiceUrlUncleaned(config, route) ==
    LET path == IF config.DEBUG THEN "/api/" \o route ELSE "/" \o route
        url == config.SERVICE_HOST \o path
    IN  IF config.DEBUG THEN url
        ELSE url \o "?code=" \o Interpolated(config.SERVICE_KEY)

\* buildServiceUrl
BuildServiceUrl(config, route) ==
    LET host == config.SERVICE_HOST
        base == IF EndsWith(host, "/") THEN SubSeq(host, 1, Len(host) - 1) ELSE host
        cleanRoute == IF StartsWith(route, "/") THEN Tail(route) ELSE route
        path == IF config.DEBUG THEN "/api/" \o cleanRoute
                ELSE "/" \o cleanRoute
        url == base \o path
    IN  IF config.DEBUG THEN url
        ELSE url \o "?code=" \o Interpolated(config.SERVICE_KEY)

\* the routes of the three requests, analyser.ts 309, 359, 454, as they are
\* and with a leading "/"
Routes ==
    LET plain == {"jobs-initiate"}
                 \cup {AnalyseFileRoute(Some(id)) : id \in JobIds}
                 \cup {FinaliseRoute(Some(id)) : id \in JobIds}
    IN  plain \cup {"/" \o route : route \in plain}

ApiKeys == {None, Some("key-1"), Some("key-2")}
ServiceVersions == {"v1", "v2", "v1/"}

InitUrl ==
    /\ project \in [apiKey : ApiKeys, debug : BOOLEAN,
                     serviceVersion : ServiceVersions, route : Routes]
    /\ disc = [url |-> None]
    /\ RunUnused
    /\ RetryUnused
    /\ TimeUnused

\* buildServiceUrl(getConfig(...), route) is called and returns
BuildUrl ==
    /\ disc.url = None
    /\ disc' = [url |-> Some(BuildServiceUrl(
                    GetConfig(project.apiKey, project.debug, project.serviceVersion),
                    project.route))]
    /\ UNCHANGED <<project, runVars, retryVars, timeVars>>

NextUrl == BuildUrl

SpecUrl == InitUrl /\ [][NextUrl]_vars

-----------------------------------------------------------------------------
(* SpecCli: the report command (src/src/index.ts), from its call to the    *)
(* end of analyzeCodebase's discovery.  The command has one argument, the  *)
(* path, and its handler calls analyzeCodebase(path): the parameters       *)
(* apiKey and debug of analyzeCodebase are undefined. project has the      *)
(* fields of SpecDiscover and [apiKey, debug], what analyzeCodebase is     *)
(* handed for these two parameters.                                        *)

CliProjects ==
    {p \in [exists : BOOLEAN, tree : Trees,
            rootIgnore : {None} \cup {Some(r) : r \in RootRules},
            overrideArg : {"none"}, overrideFile : {None},
            apiKey : {None}, debug : {FALSE}] :
        ~p.exists => p.tree = <<>> /\ p.rootIgnore = None}

InitCli ==
    /\ project \in CliProjects
    /\ disc = NoDisc
    /\ phase = "cli"
    /\ whatIf = FALSE
    /\ thrown = NoError
    /\ totalFiles = 0
    /\ throttle = DefaultThrottle
    /\ task = <<>>
    /\ hist = <<>>
    /\ queue = <<>>
    /\ intervalCount = 0
    /\ completedCount = 0
    /\ timedOutFiles = <<>>
    /\ failedFiles = <<>>
    /\ successfulFiles = None
    /\ jobId = None
    /\ reports = None
    /\ initiateCount = 0
    /\ finaliseCount = 0
    /\ finaliseRoute = None
    /\ finaliseAnswer = "none"
    /\ RetryUnused
    /\ TimeUnused

\* the action of the report command: analyzeCodebase(path) is called
Report ==
    /\ phase = "cli"
    /\ phase' = "entry"
    /\ UNCHANGED <<thrown, discVars, totalFiles, throttle, task, hist, queue, intervalCount,
                   completedCount, timedOutFiles, failedFiles,
                   successfulFiles, jobId, reports, initiateCount, finaliseCount, finaliseRoute,
                   finaliseAnswer, whatIf, retryVars, timeVars>>

NextCli ==
    \/ Report
    \/ AnalyzeCodebase
    \/ SourcesGlobbed
    \/ PackagesGlobbed

SpecCli == InitCli /\ [][NextCli]_vars

-----------------------------------------------------------------------------
(* What the claims speak of, stated from their words *)

\* a request timeout, as axios reports one
RequestTimedOut(error) ==
    error \in {TimeoutError, ClarifiedTimeoutError, WordedTimeoutError}

\* an error carrying HTTP status 408, 429 or 5xx
ClaimRetryableStatus(error) ==
    error.hasResponse /\ error.status \in ({408, 429} \cup 500..599)

ClaimRetryable(error) == RequestTimedOut(error) \/ ClaimRetryableStatus(error)

\* a retry-after directive: a header that is not white space only and
\* writes a number of seconds or an HTTP date
HasDirective(error) ==
    /\ error.hasResponse
    /\ error.retryAfter.present
    /\ Trim(error.retryAfter.text) # <<>>
    /\ (NumberOf(error.retryAfter.text) # NaN \/ error.retryAfter.parsed # None)

DirectiveMs(error, clock) ==
    LET text == error.retryAfter.text
        at == OrElse(error.retryAfter.parsed, 0)
    IN  IF NumberOf(text) # NaN THEN TimesThousand(text, NumberOf(text))
        ELSE IF at > clock THEN at - clock ELSE 0

Http429 == HttpError(429, TooManyText, NoHeader, "")
Http404 == HttpError(404, NotFoundText, NoHeader, NotFoundBody)

FailedPaths == {failedFiles[k].filePath : k \in 1..Len(failedFiles)}
TimedOutPaths == {timedOutFiles[k] : k \in 1..Len(timedOutFiles)}
Succeeded == {i \in DOMAIN task : task[i].outcome = "Success"}

-----------------------------------------------------------------------------
(* C1: once the uploads are awaited and the summary is printed (just       *)
(* before the finalise request), completedCount + |timedOutFiles| +        *)
(* |failedFiles| = totalFiles, and the reported successful count equals    *)
(* completedCount.                                                         *)
C1_TalliesAddUp ==
    successfulFiles # None =>
        /\ completedCount + Len(timedOutFiles) + Len(failedFiles) = totalFiles
        /\ successfulFiles = Some(completedCount)

C1_Witness ==
    /\ successfulFiles # None
    /\ finaliseCount = 1
    /\ Len(timedOutFiles) = 1
    /\ Len(failedFiles) = 1

(* C2: every upload task settles with one of Success, TimedOut, Failed and *)
(* never rejects; an error of one file (reading it included) does not      *)
(* abort the run: the run fails only when initiate or finalise fails.      *)
C2_TasksNeverReject ==
    /\ \A i \in DOMAIN task : task[i].outcome # "Rejected"
    /\ phase = "failed" => (jobId = None \/ finaliseAnswer = "error")

(* C3: in a run whose initiate succeeded the finalise request is sent      *)
(* exactly once, and only when no upload task is queued, running or        *)
(* sleeping.                                                               *)
C3_FinaliseOnceWhenIdle ==
    /\ finaliseCount <= 1
    /\ finaliseCount = 1 =>
          \A i \in DOMAIN task : task[i].q \notin {"queued", "running"}
    /\ (jobId # None /\ phase \in {"complete", "failed"}) => finaliseCount = 1

(* C4: whatever number of files ended TimedOut or Failed, once every file  *)
(* has its outcome the finalise request has been sent, and when finalise   *)
(* is answered the run is complete with the report locations.              *)
C4_FinaliseWhateverTheOutcomes ==
    (jobId # None /\ AllResolved(task)) =>
        /\ finaliseCount = 1
        /\ finaliseAnswer = "ok" => (phase = "complete" /\ reports # None)
        /\ finaliseAnswer = "none" => phase = "finalising"

C4_Witness ==
    /\ phase = "complete"
    /\ reports # None
    /\ totalFiles = 2
    /\ completedCount = 0
    /\ Len(timedOutFiles) = 1
    /\ Len(failedFiles) = 1

(* C5: withRetry invokes the operation at most `retries` times, whatever   *)
(* the failures; with the options of the upload call, at most 4 times.     *)
C5_AtMostRetriesCalls ==
    /\ rCall.calls <= Retries(rOpts)
    /\ rOpts = UploadOptions => rCall.calls <= 4

C5_Witness ==
    /\ rOpts = UploadOptions
    /\ rCall.st = "thrown"
    /\ rCall.calls = 4
    /\ rCall.sleeps = 3

(* C6: when a request of a file is answered with an error that is neither  *)
(* a timeout nor status 408, 429 or 5xx, withRetry makes no other attempt  *)
(* and no wait, rethrows that error, and the file is recorded Failed with  *)
(* the message of that error.                                              *)
C6_FatalAbortsAtOnce ==
    \A i \in DOMAIN hist :
        (hist[i].errors > 0 /\ ~ClaimRetryable(hist[i].last)) =>
            /\ task[i].call.st = "thrown"
            /\ task[i].call.err = hist[i].last
            /\ task[i].call.calls = hist[i].errors
            /\ task[i].call.sleeps = hist[i].errors - 1
            /\ ~hist[i].ok
            /\ task[i].outcome = "Failed"
            /\ \E k \in 1..Len(failedFiles) :
                  failedFiles[k] = [filePath |-> RelativePath(i),
                                    error |-> ErrorMessage(hist[i].last)]
            /\ RelativePath(i) \notin TimedOutPaths

C6_Witness ==
    \E i, j \in DOMAIN hist :
        /\ hist[i].last = Http404 /\ hist[i].errors = 1
        /\ task[i].outcome = "Failed"
        /\ hist[j].last = NetworkError /\ hist[j].errors = 2
        /\ task[j].outcome = "Failed"

(* C7: a failed attempt is followed by a wait and another attempt if and   *)
(* only if it is not the last allowed attempt and its error is a request   *)
(* timeout or carries status 408, 429 or 5xx.                              *)
C7_RetriedIffRetryable ==
    /\ rCall.st = "sleeping" =>
          (rCall.attempt < Retries(rOpts) /\ ClaimRetryable(rCall.err))
    /\ (rCall.st = "thrown" /\ rCall.err # UnreachableError) =>
          ~(rCall.attempt < Retries(rOpts) /\ ClaimRetryable(rCall.err))
    /\ rCall.st = "inflight" => rCall.sleeps = rCall.attempt - 1

C7_Witness ==
    /\ rCall.st = "sleeping"
    /\ rCall.err.hasResponse
    /\ rCall.err.status = 408
    /\ rCall.attempt = 2

(* C8: a file whose requests are answered 429, 429, 200 has had exactly    *)
(* three requests sent, is recorded as Success, counted once, and is in    *)
(* neither list.                                                           *)
C8_TwoRetriesThenSuccess ==
    /\ \A i \in DOMAIN hist :
          (hist[i].seen = {Http429} /\ hist[i].errors = 2 /\ hist[i].ok) =>
              /\ task[i].call.calls = 3
              /\ task[i].call.sleeps = 2
              /\ task[i].outcome = "Success"
              /\ RelativePath(i) \notin TimedOutPaths
              /\ RelativePath(i) \notin FailedPaths
    /\ completedCount = Cardinality(Succeeded)

C8_Witness ==
    \E i \in DOMAIN hist :
        /\ hist[i].seen = {Http429} /\ hist[i].errors = 2 /\ hist[i].ok
        /\ task[i].outcome = "Success"
        /\ completedCount = 1

(* C9: a retryable failure that is not the last attempt and carries a      *)
(* retry-after directive is followed by a wait of exactly the directive's  *)
(* value: seconds x 1000, or the time left until the date and 0 when it is *)
(* past; no jitter, no cap, and 0 seconds is a wait of 0.                  *)
C9_RetryAfterVerbatim ==
    (rCall.st = "sleeping" /\ HasDirective(rCall.err)) =>
        delayMs = DirectiveMs(rCall.err, now)

C9_Witness ==
    /\ rCall.st = "sleeping"
    /\ rCall.err.retryAfter = TextHeader(Units("0"))
    /\ delayMs = 0

(* C10: without a directive (no header, or a header that writes neither a  *)
(* number of seconds nor a date) the wait after failed attempt a is        *)
(* min(maxDelayMs, minDelayMs * 2^(a-1)) + j with 0 <= j < 250; the base   *)
(* does not decrease with a and the wait is at most maxDelayMs + 249; the  *)
(* upload call's bases are 1000, 2000, 4000.                               *)
C10_BackoffWithJitter ==
    (rCall.st = "sleeping" /\ ~HasDirective(rCall.err)) =>
        LET a == rCall.attempt
            lo == MinDelayMs(rOpts)
            hi == MaxDelayMs(rOpts)
            base == IF lo * Pow2(a - 1) < hi THEN lo * Pow2(a - 1) ELSE hi
        IN  /\ delayMs - base \in 0..249
            /\ delayMs <= hi + 249
            /\ \A b \in 1..a :
                  ExpDelay(b, lo, hi) <= ExpDelay(b + 1, lo, hi) /\ ExpDelay(b, lo, hi) <= hi
            /\ rOpts = UploadOptions =>
                  base = (<<1000, 2000, 4000>>)[a]

(* C11: at every moment the upload tasks that have started and not yet     *)
(* settled, those sleeping between two attempts included, are at most      *)
(* maxConcurrent, so at most maxConcurrent analyse-file requests are in    *)
(* flight; a started task holds its slot of the queue until it settles.    *)
C11_AtMostMaxConcurrentStarted ==
    LET started == {i \in DOMAIN task : task[i].call.calls > 0 /\ task[i].outcome = "None"}
        inFlight == {i \in DOMAIN task : task[i].call.st = "inflight"}
    IN  /\ Cardinality(started) <= throttle.maxConcurrent
        /\ Cardinality(inFlight) <= throttle.maxConcurrent
        /\ \A i \in started : task[i].q = "running"
        /\ \A i \in DOMAIN task : task[i].q = "done" => Over(task[i].call)

C11_Witness ==
    /\ throttle.maxConcurrent = 1
    /\ throttle.intervalCap = DefaultIntervalCap
    /\ \E i, j \in DOMAIN task :
          /\ task[i].call.st = "sleeping"
          /\ task[i].q = "running"
          /\ task[j].q = "queued"

(* C12: in any window of intervalMs the tasks started are at most          *)
(* intervalCap, whatever the concurrency limit allows, and the tasks       *)
(* running are at most maxConcurrent, whatever the window allows: a task   *)
(* starts only when both limits let it.                                    *)
C12_AtMostCapStartsPerWindow ==
    /\ SumOf(recentStarts) <= throttle.intervalCap
    /\ PendingCount(task) <= throttle.maxConcurrent

C12_Witness ==
    /\ throttle.intervalCap = 1
    /\ throttle.maxConcurrent = DefaultMaxConcurrent
    /\ DOMAIN task = 1..2
    /\ task[1].call.st = "inflight" /\ task[2].call.st = "inflight"
    /\ ticks = IntervalTicks
    /\ recentStarts = <<0, 1>>
    /\ starts = <<IntervalTicks>>

(* C13: in any window of intervalMs the analyse-file requests sent, first  *)
(* attempts and retries together, are at most intervalCap.                 *)
C13_AtMostCapRequestsPerWindow ==
    SumOf(recentRequests) <= throttle.intervalCap

(* C14: for two files i before j of the discovered list, the task of j has *)
(* not started while the task of i has not.                                *)
C14_StartsInSubmissionOrder ==
    \A i, j \in DOMAIN task :
        (i < j /\ task[j].call.calls > 0) => task[i].call.calls > 0

(* C15: when the initiate request fails the run fails with that error,     *)
(* which analyzeCodebase rejects with; the initiate request is sent once   *)
(* only, and no analyse-file request and no finalise request is sent.      *)
C15_InitiateFailureIsFatal ==
    /\ initiateCount <= 1
    /\ jobId = None => (task = <<>> /\ queue = <<>> /\ finaliseCount = 0)
    /\ (phase = "failed" /\ jobId = None) =>
          (thrown \in InitiateErrors /\ initiateCount = 1)
    /\ (phase = "initiating" \/ jobId # None \/ thrown # NoError) => initiateCount = 1

C15_Witness ==
    /\ phase = "failed"
    /\ jobId = None
    /\ Retryable(thrown)
    /\ thrown.status = 503
    /\ totalFiles = 2

(* C16: when the finalise request fails, with a timeout or status 408, 429 *)
(* or 5xx as with any other error, it is not sent again: the run is failed *)
(* and analyzeCodebase rejects with that error, even when every file was   *)
(* analysed.                                                               *)
C16_FinaliseIsSingleShot ==
    finaliseAnswer = "error" =>
        /\ phase = "failed"
        /\ thrown \in FinaliseErrors
        /\ finaliseCount = 1
        /\ reports = None

C16_Witness ==
    /\ finaliseAnswer = "error"
    /\ phase = "failed"
    /\ thrown.status = 429
    /\ totalFiles = 2
    /\ completedCount = totalFiles

(* C17: in what-if mode analyzeCodebase returns once the files are         *)
(* discovered and filtered: no initiate, analyse-file or finalise request  *)
(* is sent, whatever the files and the throttle options.                   *)
C17_WhatIfSendsNothing ==
    whatIf =>
        /\ initiateCount = 0
        /\ finaliseCount = 0
        /\ task = <<>>
        /\ jobId = None
        /\ phase \in {"start", "returned"}
        /\ thrown = NoError

C17_Witness ==
    /\ whatIf
    /\ phase = "returned"
    /\ totalFiles = 2
    /\ throttle.maxConcurrent = 1

(* C18: when the project path does not exist analyzeCodebase rejects with  *)
(* the path-not-found error, having read no ignore file, called no glob    *)
(* and sent no request; no file is discovered.                             *)
C18_MissingProjectPathFailsFirst ==
    ~project.exists =>
        /\ phase \in {"entry", "failed"}
        /\ phase = "failed" => thrown = PathNotFoundError
        /\ disc.reads = <<>>
        /\ disc.globs = 0
        /\ disc.allFiles = <<>> /\ disc.filteredFiles = <<>>
        /\ initiateCount = 0 /\ finaliseCount = 0 /\ task = <<>>

C18_Witness ==
    /\ ~project.exists
    /\ phase = "failed"
    /\ thrown = PathNotFoundError
    /\ project.overrideArg = "absolute"
    /\ project.overrideFile # None

(* C19: when an override ignore path is given and names no file, no ignore *)
(* file is read (projectPath/.gitignore neither), the rules are the        *)
(* built-in ones only, and the warning is printed.                         *)
C19_MissingOverrideLeavesDefaultsOnly ==
    (project.overrideArg # "none" /\ project.overrideFile = None
        /\ phase \notin {"entry", "failed"}) =>
        /\ disc.reads = <<>>
        /\ disc.ig = DefaultIgnores
        /\ disc.warned

(* C20: when an override ignore path is given and names a file, that file  *)
(* is the only ignore file read and the rules are its rules followed by    *)
(* the built-in ones; no run reads both ignore files, and a file that only *)
(* projectPath/.gitignore matches stays among the relevant files.          *)
C20_ExistingOverrideReplacesRootIgnore ==
    /\ Len(disc.reads) <= 1
    /\ (project.overrideArg # "none" /\ project.overrideFile # None
          /\ phase \notin {"entry", "failed"}) =>
          /\ disc.reads = <<"override">>
          /\ ~disc.warned
          /\ disc.ig = OrElse(project.overrideFile, <<>>) \o DefaultIgnores
          /\ (phase \in {"returned", "initiating"}
                /\ \E k \in DOMAIN project.tree : project.tree[k] = LegacyFile) =>
                \E k \in DOMAIN disc.relevantFiles : disc.relevantFiles[k] = LegacyFile

C20_Witness ==
    /\ project.overrideArg = "relative"
    /\ project.overrideFile = Some(<<Rule("drafts")>>)
    /\ project.rootIgnore = Some(<<Rule("legacy")>>)
    /\ project.tree = <<LegacyFile, DraftFile>>
    /\ phase = "initiating"
    /\ disc.relevantFiles = <<LegacyFile>>
    /\ disc.reads = <<"override">>

(* C21: whichever ignore file is loaded and whatever it holds, rules that  *)
(* re-include a directory among them, no file under node_modules, .next,   *)
(* dist or build is among the relevant files or the files handed to the    *)
(* upload: the built-in rules come last in ig.                             *)
OutputDirs == {"node_modules", ".next", "dist", "build"}

UnderOutputDir(path) ==
    \E k \in 1..(Len(Segments(path)) - 1) : Segments(path)[k] \in OutputDirs

C21_OutputDirsAlwaysExcluded ==
    /\ \A k \in DOMAIN disc.relevantFiles : ~UnderOutputDir(disc.relevantFiles[k])
    /\ \A k \in DOMAIN disc.filteredFiles : ~UnderOutputDir(disc.filteredFiles[k])
    /\ phase \notin {"entry", "failed"} =>
          SubSeq(disc.ig, Len(disc.ig) - Len(DefaultIgnores) + 1, Len(disc.ig))
              = DefaultIgnores

C21_Witness ==
    /\ phase = "initiating"
    /\ project.tree = <<DistFile, DependencyFile>>
    /\ project.rootIgnore # None
    /\ disc.reads = <<"root">>
    /\ \E k \in DOMAIN disc.ig : disc.ig[k] = NotRule("node_modules")
    /\ disc.allFiles = <<DistFile, DependencyFile>>
    /\ disc.relevantFiles = <<>>

(* C22: classifyFileType gives every file of the project exactly one of    *)
(* the eight roles, and no file whose role is Module (or any role outside  *)
(* FILE_TYPES_TO_ANALYZE) is among the files handed to the upload, which   *)
(* classifies them again with the same function.                           *)
Roles == {"Page", "Config", "Component", "Middleware", "API Route", "Plugin",
          "Package", "Module"}

C22_ModuleNeverDiscovered ==
    /\ \A k \in DOMAIN project.tree :
          LET role == RoleOf(project.tree[k])
          IN  Cardinality({r \in Roles : r = role}) = 1
    /\ \A k \in DOMAIN disc.filteredFiles :
          /\ RoleOf(disc.filteredFiles[k]) # "Module"
          /\ RoleOf(disc.filteredFiles[k]) \in FILE_TYPES_TO_ANALYZE

C22_Witness ==
    /\ phase = "initiating"
    /\ project.tree = <<FooFile, UtilFile>>
    /\ RoleOf(UtilFile) = "Module"
    /\ disc.relevantFiles = <<FooFile, UtilFile>>
    /\ disc.filteredFiles = <<FooFile>>

(* C23: for the project made of src/components/Foo.tsx,                    *)
(* src/middleware/plugins/bar.ts, node_modules/x/package.json and          *)
(* package.json, with no ignore file, the files handed to the upload are   *)
(* three: Foo.tsx as Component, bar.ts as Middleware and the root          *)
(* package.json as Package; node_modules/x/package.json is not one.        *)
C23_ScenarioYieldsThreeFiles ==
    (/\ project.tree = ScenarioTree
     /\ project.rootIgnore = None /\ project.overrideFile = None
     /\ phase \in {"returned", "initiating"}) =>
        /\ Len(disc.filteredFiles) = 3
        /\ {disc.filteredFiles[k] : k \in DOMAIN disc.filteredFiles}
              = {FooFile, BarFile, RootPackageFile}
        /\ RoleOf(FooFile) = "Component"
        /\ RoleOf(BarFile) = "Middleware"
        /\ RoleOf(RootPackageFile) = "Package"

(* C24: when a path satisfies several rules of the decision list of the   *)
(* specification (4.2), the role is the one of the earliest of them: a     *)
(* layout.tsx under components is a Page (rule 1 before 3), a              *)
(* component-props/index.ts under middleware/plugins is a Config (rule 2   *)
(* before 4), a .tsx file under pages/api is an API Route (rule 5 before   *)
(* 6).  Rule 1 has the entry points the specification names: bootstrap,    *)
(* layout, not-found (the file notfound.tsx) and scripts.                  *)
RuleHolds(k, path) ==
    CASE k = 1 -> \E stem \in {"bootstrap", "layout", "notfound", "scripts"} :
                      EndsWith(path, Units(stem \o ".tsx"))
      [] k = 2 -> \/ EndsWith(path, Units("component-props/index.ts"))
                  \/ EndsWith(path, Units("next.config.js"))
      [] k = 3 -> HasInfix(path, Units("/components/")) /\ EndsWith(path, Units(".tsx"))
      [] k = 4 -> HasInfix(path, Units("/middleware/plugins"))
      [] k = 5 -> HasInfix(path, Units("/pages/api/"))
      [] k = 6 -> HasInfix(path, Units("/pages/")) /\ EndsWith(path, Units(".tsx"))
      [] k = 7 -> HasInfix(path, Units("/page-props-factory/plugins/"))
      [] k = 8 -> \/ path = Units("package.json")
                  \/ EndsWith(path, Units("/package.json"))

RuleRole == <<"Page", "Config", "Component", "Middleware", "API Route", "Page",
              "Plugin", "Package">>

RulesHolding(path) ==
    {k \in DOMAIN RuleRole : RuleHolds(k, LowerCase(ReplaceBackslashes(path)))}

Earliest(rules) == CHOOSE k \in rules : \A j \in rules : k <= j

C24_EarliestRuleDecides ==
    disc.fileType # None =>
        /\ Cardinality(RulesHolding(project.filePath)) >= 2 =>
              disc.fileType = Some(RuleRole[Earliest(RulesHolding(project.filePath))])
        /\ project.filePath = Units("src/components/Layout.tsx") =>
              disc.fileType = Some("Page")
        /\ project.filePath = Units("src/middleware/plugins/component-props/index.ts") =>
              disc.fileType = Some("Config")
        /\ project.filePath = Units("src/pages/api/Foo.tsx") =>
              disc.fileType = Some("API Route")

(* C25: the role of a path is the role of the path in lower case, of the   *)
(* path in upper case and of the path with "/" for every "\".              *)
C25_CaseAndSeparatorBlind ==
    disc.fileType # None =>
        /\ disc.fileType = Some(ClassifyFileType(LowerCase(project.filePath)))
        /\ disc.fileType = Some(ClassifyFileType(UpperCase(project.filePath)))
        /\ disc.fileType = Some(ClassifyFileType(ReplaceBackslashes(project.filePath)))

(* C26, as claimed: at the end of discovery the files handed to the upload *)
(* are, each once, the files of the project that are a .ts or .tsx file or *)
(* a package.json at any depth, that the rules do not ignore and whose     *)
(* role is in FILE_TYPES_TO_ANALYZE.                                       *)
HasExtension(path, ext) == EndsWith(path, "." \o ext)

NamedPackageJson(path) ==
    \/ path = "package.json"
    \/ EndsWith(path, "/package.json")

UnderDotName(path) ==
    StartsWith(path, ".") \/ HasInfix(path, "/.")

Kept(path) ==
    /\ ~Ignores(disc.ig, path)
    /\ RoleOf(path) \in FILE_TYPES_TO_ANALYZE

NoFileTwice(files) ==
    \A j, k \in DOMAIN files : files[j] = files[k] => j = k

FilesOf(files) == {files[k] : k \in DOMAIN files}

C26_DiscoveryFiltersEveryPackageJson ==
    phase \in {"returned", "initiating"} =>
        /\ FilesOf(disc.filteredFiles) =
              {f \in FilesOf(project.tree) :
                  /\ HasExtension(f, "ts") \/ HasExtension(f, "tsx") \/ NamedPackageJson(f)
                  /\ Kept(f)}
        /\ NoFileTwice(disc.filteredFiles)

(* C26, amended: the same, where the package.json files enumerated are     *)
(* those with no name that starts with "." on their path (the .ts and .tsx *)
(* files are enumerated under such names too).                             *)
C26_DiscoveryIsTheFilter ==
    phase \in {"returned", "initiating"} =>
        /\ FilesOf(disc.filteredFiles) =
              {f \in FilesOf(project.tree) :
                  /\ \/ HasExtension(f, "ts") \/ HasExtension(f, "tsx")
                     \/ NamedPackageJson(f) /\ ~UnderDotName(f)
                  /\ Kept(f)}
        /\ NoFileTwice(disc.filteredFiles)

C26_Witness ==
    /\ phase = "initiating"
    /\ project.tree = <<WebPackageFile, StorybookPackageFile>>
    /\ Kept(StorybookPackageFile)
    /\ disc.filteredFiles = <<WebPackageFile>>

(* C27: in debug mode the URL of a request is the local host, /api/ and    *)
(* the route, with no code parameter and no key; otherwise it is the       *)
(* service host, the route and ?code=<key>, with no /api/ before the       *)
(* route; in both, one "/" stands between host and route, whether the host *)
(* ends with "/" or the route starts with "/".                             *)
WithoutSlashes(text) ==
    LET first == IF StartsWith(text, "/") THEN 2 ELSE 1
        last == IF EndsWith(text, "/") THEN Len(text) - 1 ELSE Len(text)
    IN  SubSeq(text, first, last)

\* the URL after "http://" or "https://"
AfterScheme(url) ==
    SubSeq(url, (IF StartsWith(url, "https://") THEN 9 ELSE 8), Len(url))

C27_UrlByMode ==
    disc.url # None =>
        LET url == OrElse(disc.url, "")
            route == WithoutSlashes(project.route)
            key == Interpolated(project.apiKey)
        IN  /\ project.debug =>
                  /\ url = LocalHost \o "/api/" \o route
                  /\ \A part \in {"?", "code", "=", key} : ~HasInfix(url, part)
            /\ ~project.debug =>
                  /\ url = WithoutSlashes(ServiceHost(project.serviceVersion))
                              \o "/" \o route \o "?code=" \o key
                  /\ ~HasInfix(url, "/api/")
            /\ ~HasInfix(AfterScheme(url), "//")

C27_Witness ==
    /\ ~project.debug
    /\ project.serviceVersion = "v1/"
    /\ project.route = "/jobs/job-1/analyse-file"
    /\ project.apiKey = Some("key-1")
    /\ disc.url = Some("https://api-think-fresh-digital.azure-api.net/content-sdk/v1/jobs/job-1/analyse-file?code=key-1")

\* ConfigError: the required credential is missing, not in debug mode
ConfigError ==
    [axios |-> FALSE, code |-> "",
     message |-> "API key is required",
     hasResponse |-> FALSE, hasRequest |-> FALSE,
     status |-> 0, statusText |-> "", data |-> "", retryAfter |-> NoHeader]

(* C28: when no API key is given and debug mode is off, the run fails with *)
(* the configuration error before analyzeCodebase looks at the project:    *)
(* no ignore file is read, no glob is called, no request is sent.          *)
C28_MissingKeyFailsAtPreflight ==
    (project.apiKey = None /\ ~project.debug) =>
        /\ phase \in {"cli", "failed"}
        /\ phase = "failed" => thrown = ConfigError
        /\ disc = NoDisc
        /\ initiateCount = 0 /\ finaliseCount = 0 /\ task = <<>>

(* C29: once the run has failed (readAndAnalyzeFiles has rejected), no     *)
(* upload task is queued, running or sleeping, so that no request of the   *)
(* run is sent any more.                                                   *)
C29_FailedIsAbsorbing ==
    phase = "failed" =>
        /\ queue = <<>>
        /\ \A i \in DOMAIN task :
              /\ task[i].q \notin {"queued", "running"}
              /\ task[i].call.st \notin {"inflight", "sleeping"}

(* C30: in whatever order the callbacks of the upload tasks go on, the     *)
(* completed count is at every moment the number of tasks whose upload has *)
(* succeeded, at most totalFiles, and it changes by steps of one only: it  *)
(* takes the values 1..S in turn, each once, and no two progress lines     *)
(* show the same count.                                                    *)
C30_NoIncrementLost ==
    /\ [](completedCount = Cardinality(Succeeded) /\ completedCount <= totalFiles)
    /\ [][/\ completedCount' \in {completedCount, completedCount + 1}
           /\ completedCount' = completedCount + 1 =>
                 \E i \in DOMAIN task :
                     /\ task[i].outcome # "Success"
                     /\ Succeeded' = Succeeded \cup {i}]_vars

C30_Witness ==
    /\ totalFiles = 2
    /\ completedCount = 1
    /\ task[2].outcome = "Success"
    /\ task[1].q = "running"

-----------------------------------------------------------------------------
\* the route names the job `id` and ends in `leaf`
TargetsJob(route, id, leaf) == route = Some("jobs/" \o id \o "/" \o leaf)

(* C31: no analyse-file request is sent before the initiate request has    *)
(* returned a job id, none is sent once the finalise request has been      *)
(* sent, and every analyse-file request and the finalise request name the  *)
(* job id the initiate response of this run carried.                       *)
C31_RequestsInPhaseOrder ==
    /\ [](/\ (RequestsSent(task) > 0 \/ finaliseCount > 0) =>
                  (initiateCount = 1 /\ jobId \in {Some(id) : id \in JobIds})
           /\ \A id \in JobIds : jobId = Some(id) =>
                  /\ \A i \in DOMAIN hist :
                        hist[i].route # None =>
                            TargetsJob(hist[i].route, id, "analyse-file")
                  /\ finaliseCount > 0 => TargetsJob(finaliseRoute, id, "finalise"))
    /\ [][finaliseCount > 0 => RequestsSent(task') = RequestsSent(task)]_vars

C31_Witness ==
    /\ totalFiles = 2
    /\ jobId = Some("job-1")
    /\ finaliseCount = 1
    /\ hist[1].ok /\ hist[1].route # None
    /\ hist[2].errors > 0 /\ hist[2].route # None

-----------------------------------------------------------------------------
\* how often a path stands in each list
TimesTimedOut(path) ==
    Cardinality({k \in 1..Len(timedOutFiles) : timedOutFiles[k] = path})
TimesFailed(path) ==
    Cardinality({k \in 1..Len(failedFiles) : failedFiles[k].filePath = path})

\* the message the claim derives from an error: the HTTP status and status
\* text (with the response body when there is one), the network error text,
\* or the error's own message
ClaimMessage(error) ==
    IF error.hasResponse
    THEN [kind |-> "HTTP", status |-> error.status, text |-> error.statusText,
          data |-> error.data]
    ELSE IF error.axios /\ error.hasRequest
    THEN [kind |-> "Network error: No response received from server",
          status |-> 0, text |-> "", data |-> ""]
    ELSE [kind |-> IF error.axios THEN "Request error: " ELSE "",
          status |-> 0, text |-> error.message, data |-> ""]

(* C32: a file whose attempts have ended in an error stands in exactly one *)
(* list, once, and the list is chosen by the error of the last attempt     *)
(* alone: timedOutFiles when that error is a request timeout, failedFiles  *)
(* otherwise, with the message of that last error.                         *)
C32_LastErrorDecidesTheRecord ==
    \A i \in DOMAIN task :
        (task[i].call.st = "thrown" /\ hist[i].errors > 0) =>
            LET last == hist[i].last
                path == RelativePath(i)
            IN  IF RequestTimedOut(last)
                THEN TimesTimedOut(path) = 1 /\ TimesFailed(path) = 0
                ELSE /\ TimesTimedOut(path) = 0 /\ TimesFailed(path) = 1
                     /\ \A k \in 1..Len(failedFiles) :
                           failedFiles[k].filePath = path =>
                               failedFiles[k].error = ClaimMessage(last)

C32_Witness ==
    /\ DOMAIN task = 1..2
    /\ task[1].call.st = "thrown" /\ task[2].call.st = "thrown"
    /\ hist[1].seen = {Http429, TimeoutError} /\ hist[1].last = TimeoutError
    /\ hist[1].errors = UploadRetries
    /\ hist[2].seen = {TimeoutError, Http429} /\ hist[2].last = Http429
    /\ hist[2].errors = UploadRetries
    /\ TimedOutPaths = {RelativePath(1)}
    /\ FailedPaths = {RelativePath(2)}

-----------------------------------------------------------------------------
-----------------------------------------------------------------------------
(* C34: withRetry waits between attempts only.  A wait begins only when an *)
(* attempt has just failed with a retryable error and was not the last     *)
(* allowed one; the step after a wait is another attempt; hence a call     *)
(* that is over after k >= 1 attempts has waited exactly k - 1 times (and  *)
(* a call that made no attempt has not waited).                            *)
C34_WaitsOnlyBetweenAttempts ==
    /\ [](Over(rCall) =>
             rCall.sleeps = IF rCall.calls = 0 THEN 0 ELSE rCall.calls - 1)
    /\ [][rCall.st = "sleeping" =>
             (rCall'.st = "inflight" /\ rCall'.calls = rCall.calls + 1)]_vars
    /\ [][rCall'.sleeps # rCall.sleeps =>
             /\ rCall.st = "inflight" /\ rCall'.st = "sleeping"
             /\ rCall'.sleeps = rCall.sleeps + 1
             /\ ClaimRetryable(rCall'.err)
             /\ rCall.attempt < Retries(rOpts)]_vars

C34_Witness ==
    /\ rCall.st = "thrown"
    /\ rCall.calls = 3 /\ rCall.sleeps = 2
    /\ Retries(rOpts) = 3
    /\ ClaimRetryable(rCall.err)

-----------------------------------------------------------------------------
\* the task was handed to the queue by queue.add
Submitted(i) == i \in DOMAIN task /\ task[i].q # "unread"

(* C35: when every request is answered or times out, a run that is not a   *)
(* what-if run ends complete or failed, and every upload task handed to    *)
(* the queue is started (its first request is sent) and settles (its       *)
(* outcome is recorded): neither gate of the queue starves a task.         *)
C35_RunTerminatesAndNoTaskStarves ==
    /\ (~whatIf) ~> (phase \in {"complete", "failed"})
    /\ \A i \in 1..MaxFiles :
          /\ Submitted(i) ~> (Submitted(i) /\ task[i].call.calls > 0)
          /\ Submitted(i) ~> (Submitted(i) /\ Resolved(task[i]))

C35_Witness ==
    /\ DOMAIN task = 1..2
    /\ throttle.maxConcurrent = 1
    /\ task[1].q = "running" /\ task[1].call.st = "sleeping"
    /\ task[2].q = "queued"
    /\ phase = "uploading"

-----------------------------------------------------------------------------
(* C36: a run that is not a what-if run and has no file to upload sends    *)
(* exactly one initiate request and, once that is answered, exactly one    *)
(* finalise request; it sends no analyse-file request, and the summary     *)
(* reports 0 of 0 files with nothing thrown before the finalise request.   *)
C36_EmptyRunInitiatesAndFinalises ==
    (totalFiles = 0 /\ ~whatIf) =>
        /\ task = <<>> /\ RequestsSent(task) = 0
        /\ completedCount = 0 /\ timedOutFiles = <<>> /\ failedFiles = <<>>
        /\ initiateCount = IF phase = "start" THEN 0 ELSE 1
        /\ finaliseCount = IF jobId = None THEN 0 ELSE 1
        /\ jobId # None =>
              /\ successfulFiles = Some(0)
              /\ phase \in {"finalising", "complete", "failed"}
              /\ thrown \in {NoError} \cup FinaliseErrors
              /\ phase = "failed" <=> thrown # NoError

C36_Witness ==
    /\ totalFiles = 0 /\ ~whatIf
    /\ phase = "complete"
    /\ initiateCount = 1 /\ finaliseCount = 1
    /\ successfulFiles = Some(0)

-----------------------------------------------------------------------------
\* the paths of the files whose attempts have ended in an error of the kind
EndedInTimeout ==
    {RelativePath(i) : i \in {j \in DOMAIN task :
        task[j].call.st = "thrown" /\ hist[j].errors > 0
        /\ RequestTimedOut(hist[j].last)}}
EndedInFailure ==
    {RelativePath(i) : i \in {j \in DOMAIN task :
        task[j].call.st = "thrown" /\ hist[j].errors > 0
        /\ ~RequestTimedOut(hist[j].last)}}

(* C37: at every state the timed-out list and the failed list share no     *)
(* path, no path stands twice in a list, every listed path is the path of  *)
(* a file handed to the queue, and as sets the lists are the files whose   *)
(* attempts have ended in a timeout, or in another error, whatever the     *)
(* order the tasks ended in.                                               *)
C37_ListsKeyedByPath ==
    /\ TimedOutPaths \cap FailedPaths = {}
    /\ Cardinality(TimedOutPaths) = Len(timedOutFiles)
    /\ Cardinality(FailedPaths) = Len(failedFiles)
    /\ (TimedOutPaths \cup FailedPaths) \subseteq
           {RelativePath(i) : i \in {j \in Files : Submitted(j)}}
    /\ TimedOutPaths = EndedInTimeout
    /\ FailedPaths = EndedInFailure

\* both files have timed out, the second before the first
C37_Witness ==
    /\ DOMAIN task = 1..2
    /\ timedOutFiles = <<RelativePath(2), RelativePath(1)>>
    /\ failedFiles = <<>>

-----------------------------------------------------------------------------
\* a directory on the path is named api, in whatever case
HasApiDirectory(path) ==
    \E k \in 1..(Len(Segments(path)) - 1) :
        LowerCase(Units(Segments(path)[k])) = Units("api")

(* C38: whichever ignore file is loaded, no file with role API Route is    *)
(* among the relevant files or the files handed to the upload: every file  *)
(* of the project with that role lies under a directory named api, and the *)
(* rule set ignores it.                                                    *)
C38_NoApiRouteForwarded ==
    /\ \A k \in DOMAIN disc.relevantFiles :
          RoleOf(disc.relevantFiles[k]) # "API Route"
    /\ \A k \in DOMAIN disc.filteredFiles :
          RoleOf(disc.filteredFiles[k]) # "API Route"
    /\ \A k \in DOMAIN project.tree :
          RoleOf(project.tree[k]) = "API Route" =>
              /\ HasApiDirectory(project.tree[k])
              /\ phase \notin {"entry", "failed"} => Ignores(disc.ig, project.tree[k])

C38_Witness ==
    /\ phase = "initiating"
    /\ project.tree = <<FooFile, "src/pages/api/hello.ts">>
    /\ RoleOf(project.tree[2]) = "API Route"
    /\ \E k \in DOMAIN disc.ig : disc.ig[k] = NotRule("api")
    /\ disc.allFiles = project.tree
    /\ disc.filteredFiles = <<FooFile>>

=============================================================================
